---- MODULE Spec2Model ----
(***************************************************************************)
(* A model of the kvdb crate (src/kvdb/src/lib.rs): PartedHash, ShardFile  *)
(* (memory-mapped header + append-only log in one backing file) and Store  *)
(* (ordered list of shards that split when a row overflows).               *)
(*                                                                         *)
(* The backing files are modelled as inodes (header rows + log bytes) and  *)
(* a directory that maps the file name "{start}-{end}" to an inode, since  *)
(* ShardFile::open truncates whatever file already carries the name, also  *)
(* when another ShardFile still has it open and mapped.                    *)
(*                                                                         *)
(* Every std::fs / std::io call that returns a Result may fail.  A store   *)
(* state st carries st.fail, the number of the file operation (counted     *)
(* from the start of the call) that fails, 0 for none, and st.nio, the     *)
(* number of file operations done so far.                                  *)
(***************************************************************************)
EXTENDS Integers, Sequences, FiniteSets, TLC

(* ---------------------------------------------------------------------- *)
(* Sizes.  WIDTH and ROWS are 512 and 64 in the source; the model runs the *)
(* same code with small rows so that a row can be filled.                  *)
(* ---------------------------------------------------------------------- *)
WIDTH == 2

ROWS == 2

\* number of mutating calls (set, remove, split) explored per behaviour
MaxOps == 4

\* number of direct calls of the public Store::split explored per behaviour
MaxSplitCalls == 1

\* number of failing file operations explored per behaviour
MaxFaults == 1

\* the failing file operation is one of the first MaxFaultPos of its call
MaxFaultPos == 4

\* upper limit on iterations of the split-and-retry loop that is evaluated
MaxLoop == 40

\* length of the byte sequences given to the xxhash32 Hasher
MaxData == 38

\* longest single write() to the Hasher
MaxChunk == 38

\* write() calls are counted up to MaxCount
MaxCount == 3

\* records written per behaviour to the file with the long log
MaxAppends == 2

\* pieces the file given to the tokenizer is made of
MaxPieces == 5

\* SMALL_FILE_THRESHOLD and BUFFER_SIZE are 16 KiB and 64 KiB in the source;
\* the model runs the same code with a small threshold and a small buffer
\* so that a file is read in several chunks
SMALL_FILE_THRESHOLD == 5

BUFFER_SIZE == 8

\* ROWS as the source has it
ROWS_64 == 64

INVALID_SIGN == 0

SENTINEL_SIGN == 305419896

MAX_SHARD == 65536

\* the number of values of the u16 length fields of a Descriptor
U16 == 65536

\* size_of::<ShardHeader>(): ROWS rows of WIDTH u32 signatures and WIDTH
\* 8-byte descriptors
HEADER_SIZE == ROWS * (WIDTH * 4 + WIDTH * 8)

None == <<>>

Some(v) == <<v>>

(* ---------------------------------------------------------------------- *)
(* Byte strings (Buf, &[u8], file contents) are kept as runs: a sequence   *)
(* of <<byte, count>> with count >= 1 and no two neighbours of the same    *)
(* byte, so that equal strings are equal values and a string of 65536      *)
(* bytes is one run.                                                       *)
(* ---------------------------------------------------------------------- *)
Rep(b, n) == IF n <= 0 THEN <<>> ELSE <<<<b, n>>>>

RECURSIVE BLen(_)
BLen(s) == IF s = <<>> THEN 0 ELSE s[1][2] + BLen(Tail(s))

BCat(a, b) ==
    IF a = <<>> THEN b
    ELSE IF b = <<>> THEN a
    ELSE IF a[Len(a)][1] = b[1][1]
    THEN SubSeq(a, 1, Len(a) - 1) \o <<<<b[1][1], a[Len(a)][2] + b[1][2]>>>> \o Tail(b)
    ELSE a \o b

\* the first n bytes of s
RECURSIVE BTake(_, _)
BTake(s, n) ==
    IF n <= 0 \/ s = <<>> THEN <<>>
    ELSE IF s[1][2] <= n THEN <<s[1]>> \o BTake(Tail(s), n - s[1][2])
    ELSE <<<<s[1][1], n>>>>

\* s without its first n bytes
RECURSIVE BDrop(_, _)
BDrop(s, n) ==
    IF n <= 0 \/ s = <<>> THEN s
    ELSE IF s[1][2] <= n THEN BDrop(Tail(s), n - s[1][2])
    ELSE <<<<s[1][1], s[1][2] - n>>>> \o Tail(s)

(* ---------------------------------------------------------------------- *)
(* Keys, values and the 64-bit hash.  SipHasher24 is an external crate; it *)
(* is a fixed function of the key bytes, given here as a table: KeyA..KeyD *)
(* stand for four byte strings whose hashes have the bit fields listed.  A *)
(* 64-bit hash is kept as its three bit fields, hi = bits 48..63, mid =    *)
(* bits 32..47, lo = bits 0..31 (the whole value does not fit a TLC        *)
(* integer).                                                               *)
(* ---------------------------------------------------------------------- *)
KeyA == Rep(1, 1)

KeyB == Rep(2, 1)

KeyC == BCat(Rep(1, 1), Rep(2, 1))

KeyD == Rep(3, 1)

Keys == {KeyA, KeyB, KeyC, KeyD}

Val1 == Rep(7, 1)

Val2 == BCat(Rep(8, 1), Rep(9, 1))

\* a value one byte longer than a u16 can count
ValBig == Rep(8, U16)

\* the (key, value) pairs the caller passes to set
SetInputs == (Keys \X {Val1}) \cup {<<KeyA, Val2>>, <<KeyD, ValBig>>}

\* PartedHash::new.  KeyB's low 32 bits are 0 and KeyA's are 0x12345678, so
\* both have the signature 0x12345678; KeyA, KeyB and KeyC share row 0 and
\* lie at the top, in the middle and at the bottom of the shard range.  The
\* empty string (the key a zeroed descriptor reads) hashes to
\* 0x1e924b9d737700d7.
PartedHash_new(buf) ==
    CASE buf = KeyA -> [hi |-> 65535, mid |-> 0, lo |-> 305419896]
      [] buf = KeyB -> [hi |-> 32768, mid |-> 2, lo |-> 0]
      [] buf = KeyC -> [hi |-> 0, mid |-> 4, lo |-> 9]
      [] buf = KeyD -> [hi |-> 100, mid |-> 1, lo |-> 9]
      [] buf = <<>> -> [hi |-> 7826, mid |-> 19357, lo |-> 1937178839]

\* PartedHash::sign without the remapping of 0
sign_raw(ph) == ph.lo

\* self.0 as u32, with 0 remapped
sign(ph) == IF ph.lo = INVALID_SIGN THEN SENTINEL_SIGN ELSE ph.lo

\* PartedHash::row adding the two 16-bit fields above bit 32
row_sum(ph, n) == (ph.hi + ph.mid) % n

\* (self.0 as usize >> 32) % n: the shifted value is hi * 65536 + mid
\* (usize is 64 bits wide: with a 32-bit usize the shift does not compile)
row_of(ph, n) == (((ph.hi % n) * (65536 % n)) + ph.mid) % n

\* PartedHash::row with the ROWS of the model
row(ph) == row_of(ph, ROWS)

\* (self.0 >> 48) as u32
shard(ph) == ph.hi

(* ---------------------------------------------------------------------- *)
(* File operations that may fail.                                          *)
(* ---------------------------------------------------------------------- *)
\* the n-th file operation from now is the one that fails
FailsAt(st, n) == st.fail = n

\* n file operations done (the last of them may be the one that failed)
IO(st, n) == [st EXCEPT !.fail = IF @ > n THEN @ - n ELSE 0, !.nio = @ + n]

\* the element of a one-element set: The({e(x) : x \in {a}}) is e(a) with
\* a evaluated once and bound to x, as a `let x = a;` of the source
The(S) == CHOOSE x \in S : TRUE

(* ---------------------------------------------------------------------- *)
(* Files.  An inode is [hdr, log]: the header rows and the bytes after the *)
(* header.                                                                 *)
(* ---------------------------------------------------------------------- *)
ZeroDescriptor == [offset |-> 0, klen |-> 0, vlen |-> 0]

ZeroRow ==
    [signs |-> [i \in 0..(WIDTH - 1) |-> INVALID_SIGN],
     descriptors |-> [i \in 0..(WIDTH - 1) |-> ZeroDescriptor]]

\* a file of HEADER_SIZE zero bytes: every row empty, no log
ZeroFile == [hdr |-> [r \in 0..(ROWS - 1) |-> ZeroRow], log |-> <<>>]

FreshIno(st) ==
    CHOOSE n \in 1..(Cardinality(DOMAIN st.inodes) + 1) : n \notin DOMAIN st.inodes

\* ShardFile::open without truncate(true): an existing file keeps its header
\* and log, and the cursor is put at its end
ShardFile_open_keep(st, start, end) ==
    LET name == <<start, end>>
        old == name \in DOMAIN st.dir
        ino == IF old THEN st.dir[name] ELSE FreshIno(st)
    IN  [st |-> [IO(st, 4) EXCEPT !.inodes = IF old THEN @ ELSE (ino :> ZeroFile) @@ @,
                                  !.dir = (name :> ino) @@ @],
         out |-> "ok",
         sf |-> [start |-> start, end |-> end, ino |-> ino,
                 pos |-> HEADER_SIZE + (IF old THEN BLen(st.inodes[ino].log) ELSE 0)]]

\* ShardFile::open: four file operations, each of which may fail: create or
\* truncate "{start}-{end}" (open), size it to the header (set_len), seek
\* to the end, map the header.  Truncating a file that another ShardFile
\* has mapped leaves that mapping reading the new, zeroed header.
ShardFile_open(st, start, end) ==
    LET name == <<start, end>>
        ino == IF name \in DOMAIN st.dir THEN st.dir[name] ELSE FreshIno(st)
        made == [st EXCEPT !.inodes = (ino :> ZeroFile) @@ @,
                           !.dir = (name :> ino) @@ @]
        none == [start |-> start, end |-> end, ino |-> 0, pos |-> 0]
    IN  IF FailsAt(st, 1) THEN [st |-> IO(st, 1), out |-> "err", sf |-> none]
        ELSE IF st.fail \in 2..4 THEN [st |-> IO(made, st.fail), out |-> "err", sf |-> none]
        ELSE [st |-> IO(made, 4), out |-> "ok",
              sf |-> [start |-> start, end |-> end, ino |-> ino, pos |-> HEADER_SIZE]]

\* ShardFile::header_row
header_row(st, sf, r) == st.inodes[sf.ino].hdr[r]

\* ShardFile::read through the cursor of the handle, seek(Start(offset))
\* and read_exact in place of read_exact_at: the cursor of the handle is left
\* behind the bytes read
ShardFile_read_seek(st, sf, desc) ==
    LET log == st.inodes[sf.ino].log
        from == desc.offset - HEADER_SIZE
        nk == IF desc.klen > 0 THEN 1 ELSE 0
        nv == IF desc.vlen > 0 THEN 1 ELSE 0
        moved == [st EXCEPT !.shards =
                     [j \in 1..Len(st.shards) |->
                         IF st.shards[j] = sf
                         THEN [sf EXCEPT !.pos = desc.offset + desc.klen + desc.vlen]
                         ELSE st.shards[j]]]
    IN  IF nk = 1 /\ (FailsAt(st, 1) \/ from < 0 \/ from + desc.klen > BLen(log))
        THEN [st |-> IO(st, 1), ok |-> FALSE, k |-> <<>>, v |-> <<>>]
        ELSE IF nv = 1 /\ (FailsAt(st, nk + 1) \/ from < 0
                              \/ from + desc.klen + desc.vlen > BLen(log))
        THEN [st |-> IO(st, nk + 1), ok |-> FALSE, k |-> <<>>, v |-> <<>>]
        ELSE [st |-> IO(moved, nk + nv), ok |-> TRUE,
              k |-> BTake(BDrop(log, from), desc.klen),
              v |-> BTake(BDrop(log, from + desc.klen), desc.vlen)]

\* ShardFile::read: two positional reads, each may fail, and read_exact_at
\* fails past the end of the file; a read of no bytes does no file operation
ShardFile_read(st, sf, desc) ==
    LET log == st.inodes[sf.ino].log
        from == desc.offset - HEADER_SIZE
        nk == IF desc.klen > 0 THEN 1 ELSE 0
        nv == IF desc.vlen > 0 THEN 1 ELSE 0
    IN  IF nk = 1 /\ (FailsAt(st, 1) \/ from < 0 \/ from + desc.klen > BLen(log))
        THEN [st |-> IO(st, 1), ok |-> FALSE, k |-> <<>>, v |-> <<>>]
        ELSE IF nv = 1 /\ (FailsAt(st, nk + 1) \/ from < 0
                              \/ from + desc.klen + desc.vlen > BLen(log))
        THEN [st |-> IO(st, nk + 1), ok |-> FALSE, k |-> <<>>, v |-> <<>>]
        ELSE [st |-> IO(st, nk + nv), ok |-> TRUE,
              k |-> BTake(BDrop(log, from), desc.klen),
              v |-> BTake(BDrop(log, from + desc.klen), desc.vlen)]

\* bytes written at file position HEADER_SIZE + p of a file whose log is log
WriteAt(log, p, bytes) ==
    BCat(BCat(BCat(BTake(log, p), Rep(0, p - BLen(log))), bytes),
         BDrop(log, p + BLen(bytes)))

\* ShardFile::write storing the offset counted from the end of the header
\* (offset - HEADER_SIZE) in the descriptor it returns
ShardFile_write_rel(st, sf, k, v) ==
    LET offset == sf.pos
        nk == IF k = <<>> THEN 0 ELSE 1
        nv == IF v = <<>> THEN 0 ELSE 1
        wk == [st EXCEPT !.inodes[sf.ino].log = WriteAt(@, offset - HEADER_SIZE, k)]
        wkv == [st EXCEPT !.inodes[sf.ino].log = WriteAt(@, offset - HEADER_SIZE, BCat(k, v))]
    IN  IF FailsAt(st, 1)
        THEN [st |-> IO(st, 1), sf |-> sf, out |-> "err", desc |-> ZeroDescriptor]
        ELSE IF nk = 1 /\ FailsAt(st, 2)
        THEN [st |-> IO(st, 2), sf |-> sf, out |-> "err", desc |-> ZeroDescriptor]
        ELSE IF nv = 1 /\ FailsAt(st, 2 + nk)
        THEN [st |-> IO(wk, 2 + nk), sf |-> [sf EXCEPT !.pos = offset + BLen(k)],
              out |-> "err", desc |-> ZeroDescriptor]
        ELSE [st |-> IO(wkv, 1 + nk + nv),
              sf |-> [sf EXCEPT !.pos = offset + BLen(k) + BLen(v)], out |-> "ok",
              desc |-> [offset |-> offset - HEADER_SIZE,
                        klen |-> BLen(k) % U16, vlen |-> BLen(v) % U16]]

\* ShardFile::write: stream_position, write_all(k), write_all(v), each may
\* fail (a failed write_all is taken to have written nothing; a write of no
\* bytes does no file operation); the lengths are cast to u16, and the
\* offset to u32, which leaves a position below 2^31 as it is (see
\* ShardFile_write_u64 for a log past 4 GiB)
ShardFile_write(st, sf, k, v) ==
    LET offset == sf.pos
        nk == IF k = <<>> THEN 0 ELSE 1
        nv == IF v = <<>> THEN 0 ELSE 1
        wk == [st EXCEPT !.inodes[sf.ino].log = WriteAt(@, offset - HEADER_SIZE, k)]
        wkv == [st EXCEPT !.inodes[sf.ino].log = WriteAt(@, offset - HEADER_SIZE, BCat(k, v))]
    IN  IF FailsAt(st, 1)
        THEN [st |-> IO(st, 1), sf |-> sf, out |-> "err", desc |-> ZeroDescriptor]
        ELSE IF nk = 1 /\ FailsAt(st, 2)
        THEN [st |-> IO(st, 2), sf |-> sf, out |-> "err", desc |-> ZeroDescriptor]
        ELSE IF nv = 1 /\ FailsAt(st, 2 + nk)
        THEN [st |-> IO(wk, 2 + nk), sf |-> [sf EXCEPT !.pos = offset + BLen(k)],
              out |-> "err", desc |-> ZeroDescriptor]
        ELSE [st |-> IO(wkv, 1 + nk + nv),
              sf |-> [sf EXCEPT !.pos = offset + BLen(k) + BLen(v)], out |-> "ok",
              desc |-> [offset |-> offset, klen |-> BLen(k) % U16, vlen |-> BLen(v) % U16]]

RECURSIVE FindKey(_, _, _, _, _)
\* the scan with `if let Ok((k, v)) = self.read(desc)` in place of `?`: a
\* slot whose record cannot be read is passed over
FindKey_skip(st, sf, ph, key, i) ==
    IF i >= WIDTH THEN [st |-> st, out |-> "ok", idx |-> WIDTH, v |-> <<>>]
    ELSE IF header_row(st, sf, row(ph)).signs[i] # sign(ph)
    THEN FindKey(st, sf, ph, key, i + 1)
    ELSE The({ IF rd.ok /\ rd.k = key
               THEN [st |-> rd.st, out |-> "ok", idx |-> i, v |-> rd.v]
               ELSE FindKey(rd.st, sf, ph, key, i + 1)
             : rd \in {ShardFile_read(st, sf, header_row(st, sf, row(ph)).descriptors[i])} })

\* the scan without `if k == key`: the first slot at or after i whose
\* signature equals ph.sign() is taken for the key's
FindKey_sign(st, sf, ph, key, i) ==
    IF i >= WIDTH THEN [st |-> st, out |-> "ok", idx |-> WIDTH, v |-> <<>>]
    ELSE IF header_row(st, sf, row(ph)).signs[i] # sign(ph)
    THEN FindKey(st, sf, ph, key, i + 1)
    ELSE The({ IF ~rd.ok THEN [st |-> rd.st, out |-> "err", idx |-> i, v |-> <<>>]
               ELSE [st |-> rd.st, out |-> "ok", idx |-> i, v |-> rd.v]
             : rd \in {ShardFile_read(st, sf, header_row(st, sf, row(ph)).descriptors[i])} })

\* the scan shared by ShardFile::get, ::set and ::remove: the first slot at
\* or after i of the hash's row whose signature equals ph.sign() and whose
\* record, read back from the log, carries the key (WIDTH: no such slot);
\* v is the value read with the key
FindKey(st, sf, ph, key, i) ==
    IF i >= WIDTH THEN [st |-> st, out |-> "ok", idx |-> WIDTH, v |-> <<>>]
    ELSE IF header_row(st, sf, row(ph)).signs[i] # sign(ph)
    THEN FindKey(st, sf, ph, key, i + 1)
    ELSE The({ IF ~rd.ok THEN [st |-> rd.st, out |-> "err", idx |-> i, v |-> <<>>]
               ELSE IF rd.k = key THEN [st |-> rd.st, out |-> "ok", idx |-> i, v |-> rd.v]
               ELSE FindKey(rd.st, sf, ph, key, i + 1)
             : rd \in {ShardFile_read(st, sf, header_row(st, sf, row(ph)).descriptors[i])} })

RECURSIVE FirstEmpty(_, _)
\* the insert loop of ShardFile::set falling back to slot 0 when no slot is
\* empty
FirstEmpty_evict(rw, i) ==
    IF i >= WIDTH THEN 0
    ELSE IF rw.signs[i] = INVALID_SIGN THEN i
    ELSE FirstEmpty(rw, i + 1)

\* the insert loop of ShardFile::set scanning the row from its last slot
\* down: the highest empty slot at or after i
FirstEmpty_last(rw, i) ==
    IF \A s \in i..(WIDTH - 1) : rw.signs[s] # INVALID_SIGN THEN WIDTH
    ELSE CHOOSE s \in i..(WIDTH - 1) :
             /\ rw.signs[s] = INVALID_SIGN
             /\ \A t \in (s + 1)..(WIDTH - 1) : rw.signs[t] # INVALID_SIGN

\* the first slot at or after i whose signature is INVALID_SIGN (WIDTH: none)
FirstEmpty(rw, i) ==
    IF i >= WIDTH THEN WIDTH
    ELSE IF rw.signs[i] = INVALID_SIGN THEN i
    ELSE FirstEmpty(rw, i + 1)

\* ShardFile::get
ShardFile_get(st, sf, ph, key) ==
    The({ IF f.out = "err" THEN [st |-> f.st, out |-> "err", ret |-> None]
          ELSE IF f.idx < WIDTH THEN [st |-> f.st, out |-> "ok", ret |-> Some(f.v)]
          ELSE [st |-> f.st, out |-> "ok", ret |-> None]
        : f \in {FindKey(st, sf, ph, key, 0)} })

\* row.descriptors[i] = self.write(key, val)?; return Ok(true)
WriteSlot(st, sf, r, i, key, val) ==
    The({ IF w.out = "err"
          THEN [st |-> w.st, sf |-> w.sf, out |-> "err", ret |-> FALSE]
          ELSE [st |-> [w.st EXCEPT !.inodes[sf.ino].hdr[r].descriptors[i] = w.desc],
                sf |-> w.sf, out |-> "ok", ret |-> TRUE]
        : w \in {ShardFile_write(st, sf, key, val)} })

\* ShardFile::set.  For a key that is in the row the record is appended and
\* the descriptor of its slot replaced; for a new key the signature is
\* stored in the first empty slot, then the record is appended, then the
\* descriptor is stored.
ShardFile_set(st, sf, ph, key, val) ==
    The({ IF f.out = "err" THEN [st |-> f.st, sf |-> sf, out |-> "err", ret |-> FALSE]
          ELSE IF f.idx < WIDTH THEN WriteSlot(f.st, sf, row(ph), f.idx, key, val)
          ELSE The({ IF e < WIDTH
                     THEN WriteSlot([f.st EXCEPT !.inodes[sf.ino].hdr[row(ph)].signs[e] = sign(ph)],
                                    sf, row(ph), e, key, val)
                     ELSE [st |-> f.st, sf |-> sf, out |-> "ok", ret |-> FALSE]
                   : e \in {FirstEmpty(header_row(f.st, sf, row(ph)), 0)} })
        : f \in {FindKey(st, sf, ph, key, 0)} })

\* ShardFile::remove
ShardFile_remove(st, sf, ph, key) ==
    The({ IF f.out = "err" THEN [st |-> f.st, out |-> "err", ret |-> FALSE]
          ELSE IF f.idx < WIDTH
          THEN [st |-> [f.st EXCEPT !.inodes[sf.ino].hdr[row(ph)].signs[f.idx] = INVALID_SIGN],
                out |-> "ok", ret |-> TRUE]
          ELSE [st |-> f.st, out |-> "ok", ret |-> FALSE]
        : f \in {FindKey(st, sf, ph, key, 0)} })

\* ShardFile::iter from slot p on, slots numbered row by row, run to its
\* end: one read result per slot whose signature is not INVALID_SIGN,
\* appended to acc
RECURSIVE ShardFile_iter_from(_, _, _, _)
ShardFile_iter_from(st, sf, p, acc) ==
    IF p >= ROWS * WIDTH THEN [st |-> st, items |-> acc]
    ELSE IF header_row(st, sf, p \div WIDTH).signs[p % WIDTH] = INVALID_SIGN
    THEN ShardFile_iter_from(st, sf, p + 1, acc)
    ELSE The({ ShardFile_iter_from(rd.st, sf, p + 1,
                                   Append(acc, [ok |-> rd.ok, k |-> rd.k, v |-> rd.v]))
             : rd \in {ShardFile_read(st, sf,
                           header_row(st, sf, p \div WIDTH).descriptors[p % WIDTH])} })

\* ShardFile::iter
ShardFile_iter(st, sf) == ShardFile_iter_from(st, sf, 0, <<>>)

(* ---------------------------------------------------------------------- *)
(* Store.  A store state st is [shards, inodes, dir, fail, nio]: the Vec   *)
(* of ShardFile handles [start, end, ino, pos], the files, the directory,  *)
(* and the two counters of the file operations.                            *)
(* ---------------------------------------------------------------------- *)
\* the half-open ranges of a shard list, in list order
Ranges(shs) == [i \in 1..Len(shs) |-> <<shs[i].start, shs[i].end>>]

\* closing the files no ShardFile holds any more: an unlinked file lives
\* as long as a handle to it
Drop(st) ==
    [st EXCEPT !.inodes =
        [n \in {st.shards[i].ino : i \in 1..Len(st.shards)}
                   \cup {st.dir[d] : d \in DOMAIN st.dir} |-> @[n]]]

\* Store::open with the first shard ending at u16::MAX
Store_open_u16 ==
    The({ [o.st EXCEPT !.shards = <<o.sf>>]
        : o \in {ShardFile_open([shards |-> <<>>, inodes |-> <<>>, dir |-> <<>>,
                                 fail |-> 0, nio |-> 0], 0, MAX_SHARD - 1)} })

\* Store::open on an empty directory
Store_open ==
    The({ [o.st EXCEPT !.shards = <<o.sf>>]
        : o \in {ShardFile_open([shards |-> <<>>, inodes |-> <<>>, dir |-> <<>>,
                                 fail |-> 0, nio |-> 0], 0, MAX_SHARD)} })

\* the scan of Store::get, ::remove and ::set: the first shard at or after
\* position i with ph.shard() < shard.end (0: the scan falls through)
RECURSIVE FindShard(_, _, _)
FindShard(shs, ph, i) ==
    IF i > Len(shs) THEN 0
    ELSE IF shard(ph) < shs[i].end THEN i
    ELSE FindShard(shs, ph, i + 1)

\* Store::get; "panic" is unreachable!()
Store_get(st, key) ==
    The({ IF i = 0 THEN [st |-> st, out |-> "panic", ret |-> None]
          ELSE ShardFile_get(st, st.shards[i], PartedHash_new(key), key)
        : i \in {FindShard(st.shards, PartedHash_new(key), 1)} })

\* Store::remove; "panic" is unreachable!()
Store_remove(st, key) ==
    The({ IF i = 0 THEN [st |-> st, out |-> "panic", ret |-> FALSE]
          ELSE ShardFile_remove(st, st.shards[i], PartedHash_new(key), key)
        : i \in {FindShard(st.shards, PartedHash_new(key), 1)} })

\* Vec::sort_by(|x, y| x.end.cmp(&y.end)): a stable sort
RECURSIVE InsertByEnd(_, _)
InsertByEnd(s, x) ==
    IF s = <<>> THEN <<x>>
    ELSE IF x.end < Head(s).end THEN <<x>> \o s
    ELSE <<Head(s)>> \o InsertByEnd(Tail(s), x)

\* Store::split without its sort_by: the halves stay where push left them
SortByEnd_none(s) == s

RECURSIVE SortByEnd(_)
SortByEnd(s) ==
    IF s = <<>> THEN <<>>
    ELSE InsertByEnd(SortByEnd(SubSeq(s, 1, Len(s) - 1)), s[Len(s)])

\* the midpoint of Store::split
SplitMid(start, end) == (start + end) \div 2

\* the halves of Store::split: the ShardFile opened first and called top
\* has the range [start, mid), the one called bottom has [mid, end)
TopRange(start, mid, end) == <<start, mid>>

BottomRange(start, mid, end) == <<mid, end>>

\* the half a pair is re-inserted into: if ph.shard() < mid { bottom } else
\* { top }
SplitTarget(ph, mid) == IF shard(ph) < mid THEN "bottom" ELSE "top"

\* one turn of the loop of Store::split, for the pair read from slot p of
\* removed_shard: let (key, val) = res?; then the set in bottom or in top
SplitMoveOne(st, removed, top, bottom, mid, p) ==
    The({
      IF ~rd.ok
      THEN [st |-> rd.st, top |-> top, bottom |-> bottom, out |-> "err"]
      ELSE The({
             The({ [st |-> s.st, out |-> s.out,
                    top |-> IF t = "top" THEN s.sf ELSE top,
                    bottom |-> IF t = "bottom" THEN s.sf ELSE bottom]
                 : s \in {ShardFile_set(rd.st, IF t = "bottom" THEN bottom ELSE top,
                                        PartedHash_new(rd.k), rd.k, rd.v)} })
           : t \in {SplitTarget(PartedHash_new(rd.k), mid)} })
    : rd \in {ShardFile_read(st, removed,
                  header_row(st, removed, p \div WIDTH).descriptors[p % WIDTH])} })

\* the loop of Store::split over removed_shard.iter(), from slot p on; the
\* iterator is lazy, so every slot is read when the loop reaches it
RECURSIVE SplitMove(_, _, _, _, _, _)
SplitMove(st, removed, top, bottom, mid, p) ==
    IF p >= ROWS * WIDTH
    THEN [st |-> st, top |-> top, bottom |-> bottom, out |-> "ok"]
    ELSE IF header_row(st, removed, p \div WIDTH).signs[p % WIDTH] = INVALID_SIGN
    THEN SplitMove(st, removed, top, bottom, mid, p + 1)
    ELSE The({ IF m.out = "err" THEN m
               ELSE SplitMove(m.st, removed, m.top, m.bottom, mid, p + 1)
             : m \in {SplitMoveOne(st, removed, top, bottom, mid, p)} })

\* the end of Store::split, mv the result of the loop: remove_file (which
\* fails also when the name is not in the directory), the two pushes, the
\* sort
SplitFinish(mv, start, end) ==
    IF mv.out = "err" THEN [st |-> Drop(mv.st), out |-> "err"]
    ELSE IF FailsAt(mv.st, 1) \/ <<start, end>> \notin DOMAIN mv.st.dir
    THEN [st |-> Drop(IO(mv.st, 1)), out |-> "err"]
    ELSE [st |-> Drop([IO(mv.st, 1) EXCEPT
                    !.dir = [n \in (DOMAIN @) \ {<<start, end>>} |-> @[n]],
                    !.shards = SortByEnd(@ \o <<mv.bottom, mv.top>>)]),
          out |-> "ok"]

\* Store::split of the shard [start, end) at shard_idx (counted from 1
\* here) with the midpoint mid.  The shard is taken out of the Vec first;
\* every later step may return early with the error of a file operation.
SplitAt(st, shard_idx, start, mid, end) ==
    The({ IF o1.out = "err" THEN [st |-> Drop(o1.st), out |-> "err"]
          ELSE The({ IF o2.out = "err" THEN [st |-> Drop(o2.st), out |-> "err"]
                     ELSE The({ SplitFinish(mv, start, end)
                              : mv \in {SplitMove(o2.st, st.shards[shard_idx],
                                                  o1.sf, o2.sf, mid, 0)} })
                   : o2 \in {ShardFile_open(o1.st, BottomRange(start, mid, end)[1],
                                                   BottomRange(start, mid, end)[2])} })
        : o1 \in {ShardFile_open([st EXCEPT !.shards = SubSeq(@, 1, shard_idx - 1)
                                                  \o SubSeq(@, shard_idx + 1, Len(@))],
                                 TopRange(start, mid, end)[1],
                                 TopRange(start, mid, end)[2])} })

\* Store::split
Store_split(st, shard_idx) ==
    SplitAt(st, shard_idx, st.shards[shard_idx].start,
            SplitMid(st.shards[shard_idx].start, st.shards[shard_idx].end),
            st.shards[shard_idx].end)

\* one record per executed split: the ranges before, the position split,
\* the ranges after, and whether split returned Ok or Err
SplitRecord(st, i, r) ==
    [before |-> Ranges(st.shards), idx |-> i, after |-> Ranges(r.st.shards),
     out |-> r.out]

\* one turn of the loop of Store::set: the scan, the set in the shard found
\* and, when that returns false, the split.  out is "ok" (Ok(true)
\* returned), "err" (Err returned), "panic" (unwrap of None) or "again"
\* (the split returned Ok); splits is hist with the record of the split
Store_set_try(st, key, val, hist) ==
    The({
      IF i = 0
      THEN [st |-> st, out |-> "panic", ret |-> FALSE, splits |-> hist]
      ELSE The({
             The({ IF s.out = "err"
                   THEN [st |-> st1, out |-> "err", ret |-> FALSE, splits |-> hist]
                   ELSE IF s.ret
                   THEN [st |-> st1, out |-> "ok", ret |-> TRUE, splits |-> hist]
                   ELSE The({ [st |-> sp.st, ret |-> FALSE,
                               out |-> IF sp.out = "err" THEN "err" ELSE "again",
                               splits |-> Append(hist, SplitRecord(st1, i, sp))]
                            : sp \in {Store_split(st1, i)} })
                 : st1 \in {[s.st EXCEPT !.shards[i] = s.sf]} })
           : s \in {ShardFile_set(st, st.shards[i], PartedHash_new(key), key, val)} })
    : i \in {FindShard(st.shards, PartedHash_new(key), 1)} })

\* Store::set: the split-and-retry loop, the records of the splits done so
\* far in hist.  out is "ok", "err", "panic", or "loop" (still looping
\* after MaxLoop splits)
RECURSIVE Store_set_loop(_, _, _, _)
Store_set_loop(st, key, val, hist) ==
    IF Len(hist) > MaxLoop
    THEN [st |-> st, out |-> "loop", ret |-> FALSE, splits |-> hist]
    ELSE The({ IF r.out = "again" THEN Store_set_loop(r.st, key, val, r.splits) ELSE r
             : r \in {Store_set_try(st, key, val, hist)} })

\* Store::set
Store_set(st, key, val) == Store_set_loop(st, key, val, <<>>)

\* Store::iter from shard i on, run to its end: the shards' iterators
\* chained in list order, the items appended to acc
RECURSIVE Store_iter_from(_, _, _)
Store_iter_from(st, i, acc) ==
    IF i > Len(st.shards) THEN [st |-> st, items |-> acc]
    ELSE The({ Store_iter_from(it.st, i + 1, it.items)
             : it \in {ShardFile_iter_from(st, st.shards[i], 0, acc)} })

\* Store::iter
Store_iter(st) == Store_iter_from(st, 1, <<>>)

(* ---------------------------------------------------------------------- *)
(* xxhash32 (src/xxhash/src/xxhash32.rs).  A u32 is kept as its two 16-bit *)
(* halves [hi, lo], so that no intermediate value leaves the range of a    *)
(* TLC integer; every operation is the u32 operation of the source,        *)
(* modulo 2^32.  A byte slice is a sequence of numbers in 0..255.          *)
(* ---------------------------------------------------------------------- *)
U32(h, l) == [hi |-> h, lo |-> l]

PRIME32_1 == U32(40503, 31153)

PRIME32_2 == U32(34283, 51831)

PRIME32_3 == U32(49842, 44605)

PRIME32_4 == U32(10196, 60207)

PRIME32_5 == U32(5718, 26545)

\* size_of::<Bytes>()
BYTES_IN_LANE == 16

\* 2^n, 0 <= n <= 16
Pow2(n) ==
    <<1, 2, 4, 8, 16, 32, 64, 128, 256, 512, 1024, 2048, 4096, 8192, 16384, 32768,
      65536>>[n + 1]

wrapping_add(a, b) ==
    U32((a.hi + b.hi + ((a.lo + b.lo) \div 65536)) % 65536, (a.lo + b.lo) % 65536)

\* a - b = a + !b + 1
wrapping_sub(a, b) ==
    wrapping_add(wrapping_add(a, U32(65535 - b.hi, 65535 - b.lo)), U32(0, 1))

\* the 32-bit product of two 16-bit numbers, through the bytes of x
Mul16(x, y) ==
    LET t0 == (x % 256) * y
        t1 == (x \div 256) * y
        s == ((t1 % 256) * 256) + t0
    IN  U32((t1 \div 256) + (s \div 65536), s % 65536)

wrapping_mul(a, b) ==
    LET p == Mul16(a.lo, b.lo)
    IN  U32((p.hi + Mul16(a.hi, b.lo).lo + Mul16(a.lo, b.hi).lo) % 65536, p.lo)

\* u32::rotate_left(n), 0 < n < 32
rotate_left(a, n) ==
    LET x == IF n >= 16 THEN U32(a.lo, a.hi) ELSE a
        m == n % 16
    IN  IF m = 0 THEN x
        ELSE U32(((x.hi * Pow2(m)) % 65536) + (x.lo \div Pow2(16 - m)),
                 ((x.lo * Pow2(m)) % 65536) + (x.hi \div Pow2(16 - m)))

\* a >> n, 0 < n <= 16
shr(a, n) ==
    U32(a.hi \div Pow2(n), (((a.hi % Pow2(n)) * Pow2(16 - n)) % 65536) + (a.lo \div Pow2(n)))

\* x ^ y for 4-bit numbers, bit by bit
Xor4(x, y) ==
    ((x + y) % 2)
    + (2 * (((x \div 2) + (y \div 2)) % 2))
    + (4 * (((x \div 4) + (y \div 4)) % 2))
    + (8 * (((x \div 8) + (y \div 8)) % 2))

\* x ^ y for 16-bit numbers, four bits at a time
Xor16(x, y) ==
    Xor4(x % 16, y % 16)
    + (16 * Xor4((x \div 16) % 16, (y \div 16) % 16))
    + (256 * Xor4((x \div 256) % 16, (y \div 256) % 16))
    + (4096 * Xor4(x \div 4096, y \div 4096))

xor(a, b) == U32(Xor16(a.hi, b.hi), Xor16(a.lo, b.lo))

\* the u32 whose little-endian bytes are b[i], ..., b[i + 3]: what
\* from_ne_bytes / read_unaligned followed by to_le() gives on either
\* byte order
LaneAt(b, i) == U32(b[i + 2] + (256 * b[i + 3]), b[i] + (256 * b[i + 1]))

\* a length as u32 (the lengths of the model stay below 2^31)
LenU32(n) == U32(n \div 65536, n % 65536)

\* Buffer::new; data is the 16-byte view of the four lanes
Buffer_new == [offset |-> 0, data |-> [i \in 1..BYTES_IN_LANE |-> 0]]

\* Buffer::extend handing back all of data once the buffer is full, the
\* bytes it copied included
Buffer_extend_all(buf, data) ==
    IF buf.offset = 0 THEN [buf |-> buf, lanes |-> None, rest |-> data]
    ELSE LET empty == BYTES_IN_LANE - buf.offset
             n_to_copy == IF empty < Len(data) THEN empty ELSE Len(data)
             bytes == [i \in 1..BYTES_IN_LANE |->
                          IF i > buf.offset /\ i <= buf.offset + n_to_copy
                          THEN data[i - buf.offset] ELSE buf.data[i]]
         IN  IF buf.offset + n_to_copy = BYTES_IN_LANE
             THEN [buf |-> [offset |-> 0, data |-> bytes], lanes |-> Some(bytes), rest |-> data]
             ELSE [buf |-> [offset |-> buf.offset + n_to_copy, data |-> bytes],
                   lanes |-> None, rest |-> <<>>]

\* Buffer::extend leaving the offset at 16 when the buffer has become full
Buffer_extend_noreset(buf, data) ==
    IF buf.offset = 0 THEN [buf |-> buf, lanes |-> None, rest |-> data]
    ELSE LET empty == BYTES_IN_LANE - buf.offset
             n_to_copy == IF empty < Len(data) THEN empty ELSE Len(data)
             bytes == [i \in 1..BYTES_IN_LANE |->
                          IF i > buf.offset /\ i <= buf.offset + n_to_copy
                          THEN data[i - buf.offset] ELSE buf.data[i]]
             rest == SubSeq(data, n_to_copy + 1, Len(data))
         IN  [buf |-> [offset |-> buf.offset + n_to_copy, data |-> bytes],
              lanes |-> IF buf.offset + n_to_copy = BYTES_IN_LANE THEN Some(bytes) ELSE None,
              rest |-> rest]

\* Buffer::extend: (Option<&Lanes>, rest) and the buffer afterwards
Buffer_extend(buf, data) ==
    IF buf.offset = 0 THEN [buf |-> buf, lanes |-> None, rest |-> data]
    ELSE LET empty == BYTES_IN_LANE - buf.offset
             n_to_copy == IF empty < Len(data) THEN empty ELSE Len(data)
             bytes == [i \in 1..BYTES_IN_LANE |->
                          IF i > buf.offset /\ i <= buf.offset + n_to_copy
                          THEN data[i - buf.offset] ELSE buf.data[i]]
             rest == SubSeq(data, n_to_copy + 1, Len(data))
         IN  IF buf.offset + n_to_copy = BYTES_IN_LANE
             THEN [buf |-> [offset |-> 0, data |-> bytes], lanes |-> Some(bytes), rest |-> rest]
             ELSE [buf |-> [offset |-> buf.offset + n_to_copy, data |-> bytes],
                   lanes |-> None, rest |-> rest]

\* Buffer::set
Buffer_set(buf, data) ==
    IF data = <<>> THEN buf
    ELSE [offset |-> Len(data),
          data |-> [i \in 1..BYTES_IN_LANE |-> IF i <= Len(data) THEN data[i] ELSE buf.data[i]]]

\* the two debug_assert!(self.offset <= bytes.len()) of Buffer::extend,
\* before and after the copy: TRUE when neither fails
Buffer_extend_asserts(buf, data) ==
    \/ buf.offset = 0
    \/ /\ buf.offset <= BYTES_IN_LANE
       /\ LET empty == BYTES_IN_LANE - buf.offset
              n_to_copy == IF empty < Len(data) THEN empty ELSE Len(data)
          IN  buf.offset + n_to_copy <= BYTES_IN_LANE

\* debug_assert_eq!(self.offset, 0) and debug_assert!(n_to_copy < bytes.len())
\* of Buffer::set: TRUE when neither fails
Buffer_set_asserts(buf, data) ==
    \/ data = <<>>
    \/ /\ buf.offset = 0
       /\ Len(data) < BYTES_IN_LANE

\* Buffer::remaining
Buffer_remaining(buf) == SubSeq(buf.data, 1, buf.offset)

\* Accumulator::new
Accumulator_new(seed) ==
    <<wrapping_add(wrapping_add(seed, PRIME32_1), PRIME32_2),
      wrapping_add(seed, PRIME32_2),
      seed,
      wrapping_sub(seed, PRIME32_1)>>

\* Accumulator::round
Accumulator_round(acc, lane) ==
    The({ The({ wrapping_mul(a2, PRIME32_1) : a2 \in {rotate_left(a1, 13)} })
        : a1 \in {wrapping_add(acc, wrapping_mul(lane, PRIME32_2))} })

\* Accumulator::write; lanes are the 16 bytes of the four lanes
Accumulator_write(acc, lanes) ==
    <<Accumulator_round(acc[1], LaneAt(lanes, 1)),
      Accumulator_round(acc[2], LaneAt(lanes, 5)),
      Accumulator_round(acc[3], LaneAt(lanes, 9)),
      Accumulator_round(acc[4], LaneAt(lanes, 13))>>

\* Accumulator::write_many: the accumulator after every whole 16-byte chunk
\* of data, and the bytes left
RECURSIVE Accumulator_write_many(_, _)
Accumulator_write_many(acc, data) ==
    IF Len(data) < BYTES_IN_LANE THEN [acc |-> acc, rest |-> data]
    ELSE The({ Accumulator_write_many(a, SubSeq(data, BYTES_IN_LANE + 1, Len(data)))
             : a \in {Accumulator_write(acc, SubSeq(data, 1, BYTES_IN_LANE))} })

\* Accumulator::finish
Accumulator_finish(acc) ==
    wrapping_add(wrapping_add(wrapping_add(rotate_left(acc[1], 1), rotate_left(acc[2], 7)),
                              rotate_left(acc[3], 12)),
                 rotate_left(acc[4], 18))

\* the two loops of Hasher::finish_with: four bytes at a time, then the
\* bytes left one at a time
RECURSIVE FinishTail(_, _)
FinishTail(acc, data) ==
    IF Len(data) >= 4
    THEN The({ The({ FinishTail(a2, SubSeq(data, 5, Len(data)))
                   : a2 \in {wrapping_mul(rotate_left(a1, 17), PRIME32_4)} })
             : a1 \in {wrapping_add(acc, wrapping_mul(LaneAt(data, 1), PRIME32_3))} })
    ELSE IF data # <<>>
    THEN The({ The({ FinishTail(a2, Tail(data))
                   : a2 \in {wrapping_mul(rotate_left(a1, 11), PRIME32_1)} })
             : a1 \in {wrapping_add(acc, wrapping_mul(U32(0, data[1]), PRIME32_5))} })
    ELSE acc

\* the last five statements of Hasher::finish_with
Avalanche(acc) ==
    The({ The({ The({ The({ xor(a4, shr(a4, 16))
                          : a4 \in {wrapping_mul(a3, PRIME32_3)} })
                    : a3 \in {xor(a2, shr(a2, 13))} })
              : a2 \in {wrapping_mul(a1, PRIME32_2)} })
        : a1 \in {xor(acc, shr(acc, 15))} })

\* Hasher::finish_with.  `acc += len as u32` is a plain addition: with
\* overflow checks compiled in (checked) it panics when the sum does not
\* fit a u32 (None: no value is returned), without them it wraps
Hasher_finish_with(seed, len, accumulator, data, checked) ==
    The({ IF checked /\ acc.hi + (len \div 65536) + ((acc.lo + (len % 65536)) \div 65536) >= 65536
          THEN None
          ELSE The({ Some(Avalanche(t)) : t \in {FinishTail(wrapping_add(acc, LenU32(len)), data)} })
        : acc \in {IF len < BYTES_IN_LANE THEN wrapping_add(seed, PRIME32_5)
                   ELSE Accumulator_finish(accumulator)} })

\* Hasher::oneshot
Hasher_oneshot(seed, data, checked) ==
    The({ Hasher_finish_with(seed, Len(data), w.acc, w.rest, checked)
        : w \in {Accumulator_write_many(Accumulator_new(seed), data)} })

\* Hasher::with_seed
Hasher_with_seed(seed) ==
    [seed |-> seed, length |-> 0, accumulator |-> Accumulator_new(seed), buffer |-> Buffer_new]

\* <Hasher as core::hash::Hasher>::write
Hasher_write(h, data) ==
    The({ The({ [seed |-> h.seed,
                 length |-> h.length + Len(data),
                 accumulator |-> w.acc,
                 buffer |-> Buffer_set(e.buf, w.rest)]
              : w \in {Accumulator_write_many(
                           IF e.lanes = None THEN h.accumulator
                           ELSE Accumulator_write(h.accumulator, e.lanes[1]),
                           e.rest)} })
        : e \in {Buffer_extend(h.buffer, data)} })

\* the debug assertions met by one call of write: TRUE when none fails
Hasher_write_asserts(h, data) ==
    /\ Buffer_extend_asserts(h.buffer, data)
    /\ \A e \in {Buffer_extend(h.buffer, data)} :
          \A w \in {Accumulator_write_many(
                        IF e.lanes = None THEN h.accumulator
                        ELSE Accumulator_write(h.accumulator, e.lanes[1]),
                        e.rest)} :
              Buffer_set_asserts(e.buf, w.rest)

\* Hasher::finish_32 (finish is its value as a u64)
Hasher_finish_32(h, checked) ==
    Hasher_finish_with(h.seed, h.length, h.accumulator, Buffer_remaining(h.buffer), checked)

\* the seeds the caller uses: 0, the seed of the reference vectors, and the
\* seed for which seed + PRIME32_5 is 0xFFFFFFFF
Seeds == {U32(0, 0), U32(17097, 6519), U32(59817, 38990)}

\* the inputs: MaxData bytes 0, 1, 2, ... and MaxData bytes 0xFF
HashInputs == {[i \in 1..MaxData |-> i - 1], [i \in 1..MaxData |-> 255]}

\* the lengths of a write() call
ChunkLens == 0..MaxChunk

\* no Hasher in use
NoHasher ==
    [phase |-> "none", seed |-> U32(0, 0), data |-> <<>>, pos |-> 0,
     hasher |-> Hasher_with_seed(U32(0, 0)), checked |-> FALSE, nwrite |-> 0, out |-> None,
     dbg |-> TRUE]

(* ---------------------------------------------------------------------- *)
(* A shard file whose log has grown past 4 GiB.  A file position is a u64; *)
(* it is kept as [hi, lo], hi * 65536 + lo with lo < 65536 (the value does *)
(* not fit a TLC integer).  The positions of the store state machine below *)
(* stay under 2^31, where `offset as u32` changes nothing; here the cast   *)
(* is applied to positions on both sides of 2^32.                          *)
(* ---------------------------------------------------------------------- *)
W(h, l) == [hi |-> h + (l \div 65536), lo |-> l % 65536]

\* a + n for an n below 2^30
WAdd(a, n) == W(a.hi, a.lo + n)

WLess(a, b) == a.hi < b.hi \/ (a.hi = b.hi /\ a.lo < b.lo)

WMax(a, b) == IF WLess(a, b) THEN b ELSE a

WMin(a, b) == IF WLess(a, b) THEN a ELSE b

\* a - b of two positions less than 2^30 apart
WDiff(a, b) == (a.hi - b.hi) * 65536 + a.lo - b.lo

\* `offset as u32`: the low 32 bits
as_u32(a) == [hi |-> a.hi % 65536, lo |-> a.lo]

\* the number of the n bytes from position q on that lie in [from, to)
Overlap(q, n, from, to) ==
    IF WLess(WMax(q, from), WMin(WAdd(q, n), to))
    THEN WDiff(WMin(WAdd(q, n), to), WMax(q, from))
    ELSE 0

\* the little-endian bytes of a u32 and of a u16
LE32(a) ==
    BCat(BCat(Rep(a.lo % 256, 1), Rep(a.lo \div 256, 1)),
         BCat(Rep(a.hi % 256, 1), Rep(a.hi \div 256, 1)))

LE16(n) == BCat(Rep(n % 256, 1), Rep(n \div 256, 1))

\* the key and the value that filled the log: every record is U16 bytes 3
FillKey == KeyD

FillVal == Rep(3, U16 - 1)

\* the bytes of a #[repr(C)] Descriptor
DescriptorBytes(desc) == BCat(LE32(desc.offset), BCat(LE16(desc.klen), LE16(desc.vlen)))

\* the bytes of the header rows r.. after n sets of (FillKey, FillVal) on a
\* fresh ShardFile: slot 0 of FillKey's row holds its signature and the
\* descriptor of the n-th record, every other byte is 0
RECURSIVE HeaderBytes(_, _)
HeaderBytes(n, r) ==
    IF r >= ROWS THEN <<>>
    ELSE IF n = 0 \/ r # row(PartedHash_new(FillKey))
    THEN BCat(Rep(0, WIDTH * 12), HeaderBytes(n, r + 1))
    ELSE BCat(BCat(BCat(LE32(W(0, sign(PartedHash_new(FillKey)))), Rep(0, (WIDTH - 1) * 4)),
                   BCat(DescriptorBytes([offset |-> as_u32(W(n - 1, HEADER_SIZE)),
                                         klen |-> BLen(FillKey), vlen |-> BLen(FillVal)]),
                        Rep(0, (WIDTH - 1) * 8))),
              HeaderBytes(n, r + 1))

\* the file of a ShardFile after n sets of (FillKey, FillVal): hdr is the
\* header, the log is `old` bytes `fill` followed by recs, the records
\* written since
FilledFile(n) ==
    [hdr |-> HeaderBytes(n, 0), old |-> W(n, 0), fill |-> 3, recs |-> <<>>]

\* the length of the file; the handle is the only writer of the file, so
\* this is also its cursor
FileEnd(f) == WAdd(WAdd(f.old, HEADER_SIZE), BLen(f.recs))

\* the n bytes of the file from position q on (n at most 2^17, q + n within
\* the file)
BytesAt(f, q, n) ==
    BCat(BCat(IF Overlap(q, n, W(0, 0), W(0, HEADER_SIZE)) = 0 THEN <<>>
              ELSE BTake(BDrop(f.hdr, q.lo), Overlap(q, n, W(0, 0), W(0, HEADER_SIZE))),
              Rep(f.fill, Overlap(q, n, W(0, HEADER_SIZE), WAdd(f.old, HEADER_SIZE)))),
         IF Overlap(q, n, WAdd(f.old, HEADER_SIZE), FileEnd(f)) = 0 THEN <<>>
         ELSE BTake(BDrop(f.recs, IF WLess(WAdd(f.old, HEADER_SIZE), q)
                                  THEN WDiff(q, WAdd(f.old, HEADER_SIZE)) ELSE 0),
                    Overlap(q, n, WAdd(f.old, HEADER_SIZE), FileEnd(f))))

\* ShardFile::read with u64 positions: read_exact_at fails when the file
\* ends before the buffer is full
ShardFile_read_u64(f, desc) ==
    IF desc.klen > 0 /\ WLess(FileEnd(f), WAdd(desc.offset, desc.klen))
    THEN [ok |-> FALSE, k |-> <<>>, v |-> <<>>]
    ELSE IF desc.vlen > 0 /\ WLess(FileEnd(f), WAdd(desc.offset, desc.klen + desc.vlen))
    THEN [ok |-> FALSE, k |-> <<>>, v |-> <<>>]
    ELSE [ok |-> TRUE,
          k |-> BytesAt(f, desc.offset, desc.klen),
          v |-> BytesAt(f, WAdd(desc.offset, desc.klen), desc.vlen)]

\* ShardFile::write with u64 positions, no file operation failing
ShardFile_write_u64(f, k, v) ==
    [f |-> [f EXCEPT !.recs = BCat(@, BCat(k, v))],
     at |-> FileEnd(f),
     desc |-> [offset |-> as_u32(FileEnd(f)), klen |-> BLen(k) % U16, vlen |-> BLen(v) % U16]]

\* the numbers of (FillKey, FillVal) records the log starts with: none, one,
\* and as many as bring the end of the file to 2^32 - U16, 2^32 and
\* 2^32 + U16 bytes after the header
NFills == {0, 1, U16 - 1, U16, U16 + 1}

\* the keys and values given to write: empty, short, and U16 - 1 bytes
WriteKeys == {<<>>, KeyA, KeyC, KeyD, Rep(5, U16 - 1)}

WriteVals == {<<>>, Val2, Rep(8, U16 - 1)}

\* the 64-bit hashes given to sign, row and shard, as their bit fields: the
\* corner values of each field, the sentinel, and values on both sides of
\* a multiple of ROWS_64 (lo stays below 2^31, the range of a TLC integer)
HashFields ==
    [hi : {0, 1, 2, 63, 64, 32768, 65535},
     mid : {0, 1, 63, 64, 65, 32768, 65535},
     lo : {0, 1, 9, 65536, 305419896, 2147483647}]

\* no PartedHash in use
NoParted == [h |-> [hi |-> 0, mid |-> 0, lo |-> 0], out |-> None]

\* no file in use
NoFile == [file |-> FilledFile(0), napp |-> 0, out |-> None]

(* ---------------------------------------------------------------------- *)
(* Y3, the tokenizer (src/y3/src/lib.rs).  A file and a chunk are          *)
(* sequences of bytes 0..255, a token a sequence of bytes, and a class of  *)
(* the lookup table the set of the flags of its bit mask.  Indexes are the *)
(* source's, from 0: byte i of buf is buf[i + 1].                          *)
(* ---------------------------------------------------------------------- *)
\* Y3::build_lookup
build_lookup ==
    [b \in 0..255 |->
        (IF b \in 97..122 THEN {"LOWER"} ELSE {})
        \cup (IF b \in 65..90 THEN {"UPPER"} ELSE {})
        \cup (IF b \in 48..57 THEN {"DIGIT"} ELSE {})
        \cup (IF b \in {32, 10, 13, 9, 45, 95} THEN {"DELIM"} ELSE {})
        \cup (IF b \in {64, 46} THEN {"EMAIL_CHAR"} ELSE {})
        \cup (IF b \in {58, 47} THEN {"URL_CHAR"} ELSE {})]

\* cls & (LOWER | UPPER | DIGIT) != 0
AlphaNum(cls) == cls \cap {"LOWER", "UPPER", "DIGIT"} # {}

\* b"http" | b"https" | b"ftp" | b"ftps" | b"file" | b"mailto" | b"ssh" | b"git"
Protocols ==
    { <<104, 116, 116, 112>>, <<104, 116, 116, 112, 115>>, <<102, 116, 112>>,
      <<102, 116, 112, 115>>, <<102, 105, 108, 101>>, <<109, 97, 105, 108, 116, 111>>,
      <<115, 115, 104>>, <<103, 105, 116>> }

\* the start of the alphanumeric run that ends buf[..start]
RECURSIVE WordStart(_, _)
WordStart(buf, start) ==
    IF start > 0 /\ AlphaNum(build_lookup[buf[start]]) THEN WordStart(buf, start - 1)
    ELSE start

\* Y3::looks_like_url_protocol
looks_like_url_protocol(buf) ==
    /\ WordStart(buf, Len(buf)) < Len(buf)
    /\ SubSeq(buf, WordStart(buf, Len(buf)) + 1, Len(buf)) \in Protocols

\* the loop of Y3::looks_like_email_domain from index i on, and its result
RECURSIVE EmailScan(_, _, _, _)
EmailScan(buf, i, found_dot, chars_after_dot) ==
    IF ~(i < Len(buf) /\ i < 50) THEN found_dot /\ chars_after_dot >= 2
    ELSE IF buf[i + 1] = 46
    THEN IF found_dot \/ i = 1 THEN FALSE ELSE EmailScan(buf, i + 1, TRUE, 0)
    ELSE IF AlphaNum(build_lookup[buf[i + 1]]) \/ buf[i + 1] = 45
    THEN EmailScan(buf, i + 1, found_dot,
                   IF found_dot THEN chars_after_dot + 1 ELSE chars_after_dot)
    ELSE found_dot /\ chars_after_dot >= 2

\* Y3::looks_like_email_domain
looks_like_email_domain(buf) == EmailScan(buf, 1, FALSE, 0)

\* buf[a..b].to_vec()
Slice(buf, a, b) == SubSeq(buf, a + 1, b)

\* process_chunks ending every token, whether or not it has a lowercase
\* letter
EndToken_any(buf, i, s) ==
    [s EXCEPT !.tokens = IF s.in_token THEN Append(@, Slice(buf, s.start, i)) ELSE @,
              !.in_token = FALSE,
              !.saw_lower = FALSE]

\* the end of a token at index i: it is pushed when it has a lowercase letter
EndToken(buf, i, s) ==
    [s EXCEPT !.tokens = IF s.in_token /\ s.saw_lower
                         THEN Append(@, Slice(buf, s.start, i)) ELSE @,
              !.in_token = FALSE,
              !.saw_lower = FALSE]

\* step 3 of the loop body: the byte starts or continues a token
InToken(buf, i, s, cls) ==
    IF ~s.in_token
    THEN [s EXCEPT !.start = i, !.in_token = TRUE, !.saw_lower = "LOWER" \in cls,
                   !.last_cls = cls]
    ELSE IF "UPPER" \in cls /\ s.saw_lower
    THEN [s EXCEPT !.tokens = Append(@, Slice(buf, s.start, i)),
                   !.start = i, !.saw_lower = FALSE, !.last_cls = cls]
    ELSE IF "UPPER" \in s.last_cls /\ "LOWER" \in cls
    THEN [s EXCEPT !.tokens = IF s.saw_lower THEN Append(@, Slice(buf, s.start, i - 1)) ELSE @,
                   !.start = i - 1, !.saw_lower = TRUE, !.last_cls = cls]
    ELSE IF "LOWER" \in cls
    THEN [s EXCEPT !.saw_lower = TRUE, !.last_cls = cls]
    ELSE [s EXCEPT !.last_cls = cls]

\* one pass of the loop body of process_chunks, for byte i of buf
ProcessByte(buf, i, s) ==
    LET ch == buf[i + 1]
        cls == build_lookup[ch]
    IN  IF /\ ~s.in_url /\ ~s.in_email /\ ch = 58
           /\ i + 2 < Len(buf) /\ buf[i + 2] = 47 /\ buf[i + 3] = 47
           /\ looks_like_url_protocol(SubSeq(buf, 1, i))
        THEN [s EXCEPT !.in_url = TRUE, !.in_token = FALSE, !.saw_lower = FALSE]
        ELSE IF s.in_url
        THEN IF \/ "DELIM" \in cls
                \/ (ch \notin {47, 58, 46, 45, 95, 63, 38, 61, 35, 37} /\ ~AlphaNum(cls))
             THEN [s EXCEPT !.in_url = FALSE]
             ELSE s
        ELSE IF ch = 64 /\ s.in_token /\ looks_like_email_domain(SubSeq(buf, i + 1, Len(buf)))
        THEN [s EXCEPT !.in_email = TRUE]
        ELSE IF s.in_email
        THEN IF cls \cap {"LOWER", "UPPER", "DIGIT", "EMAIL_CHAR"} = {} /\ ch # 45 /\ ch # 95
             THEN [s EXCEPT !.in_token = FALSE, !.in_email = FALSE, !.saw_lower = FALSE]
             ELSE s
        ELSE IF ~AlphaNum(cls)
        THEN EndToken(buf, i, s)
        ELSE IF "DIGIT" \in cls
                /\ ~(i + 1 < Len(buf) /\ "LOWER" \in build_lookup[buf[i + 2]])
        THEN EndToken(buf, i, s)
        ELSE InToken(buf, i, s, cls)

\* the loop of process_chunks from byte i on
RECURSIVE ProcessFrom(_, _, _)
ProcessFrom(buf, i, s) ==
    IF i >= Len(buf) THEN s
    ELSE The({ ProcessFrom(buf, i + 1, t) : t \in {ProcessByte(buf, i, s)} })

\* Y3::process_chunks: the tokens of buf appended to tokens
process_chunks(tokens, buf) ==
    The({ IF s.in_token /\ s.saw_lower /\ ~s.in_email /\ ~s.in_url
          THEN Append(s.tokens, Slice(buf, s.start, Len(buf)))
          ELSE s.tokens
        : s \in {ProcessFrom(buf, 0,
                     [start |-> 0, in_token |-> FALSE, saw_lower |-> FALSE, last_cls |-> {},
                      in_email |-> FALSE, in_url |-> FALSE, tokens |-> tokens])} })

\* the loop of Y3::tokenize for a file above SMALL_FILE_THRESHOLD, from
\* position pos on: read() fills the buffer, or returns what is left
RECURSIVE ReadLoop(_, _, _)
ReadLoop(tokens, file, pos) ==
    IF pos >= Len(file) THEN tokens
    ELSE The({ ReadLoop(process_chunks(tokens, SubSeq(file, pos + 1, pos + n)), file, pos + n)
             : n \in {IF Len(file) - pos < BUFFER_SIZE THEN Len(file) - pos ELSE BUFFER_SIZE} })

\* Y3::tokenize on a file that can be read: the tokens after the call
tokenize(tokens, file) ==
    IF Len(file) <= SMALL_FILE_THRESHOLD THEN process_chunks(tokens, file)
    ELSE ReadLoop(tokens, file, 0)

\* the pieces a file is made of: "s", "A", "1", " ", "@", ".", ":",
\* "s@h.ss" (an e-mail address) and "ssh://s" (a URL)
Pieces ==
    { <<115>>, <<65>>, <<49>>, <<32>>, <<64>>, <<46>>, <<58>>,
      <<115, 64, 104, 46, 115, 115>>, <<115, 115, 104, 58, 47, 47, 115>> }

\* no tokenizer in use
NoY3 == [phase |-> "none", file |-> <<>>, npieces |-> 0, tokens |-> <<>>]

(* ---------------------------------------------------------------------- *)
(* The state machine: a caller that owns one Store and calls its public    *)
(* methods one after the other (single-threaded, every call runs to its    *)
(* end).  In each call at most one file operation fails, and at most       *)
(* `faults` file operations fail in a behaviour: Spec starts with          *)
(* faults = 0 (no file operation fails, apart from a read past the end of  *)
(* a file and a remove_file of a name that is gone), SpecIO starts with    *)
(* faults = MaxFaults.                                                     *)
(* ---------------------------------------------------------------------- *)
VARIABLES shards, inodes, dir, latest, last, ops, nsplit, faults, hs, wf, pk, tk

vars == <<shards, inodes, dir, latest, last, ops, nsplit, faults, hs, wf, pk, tk>>

\* the store at the start of a call in which file operation f fails
With(f) == [shards |-> shards, inodes |-> inodes, dir |-> dir, fail |-> f, nio |-> 0]

St == With(0)

\* the file operations that may fail in a call that does n of them when
\* none fails (0: none fails)
FaultChoices(n) ==
    IF faults > 0 THEN 0..(IF n < MaxFaultPos THEN n ELSE MaxFaultPos) ELSE {0}

\* latest[k] is the history of key k as the caller knows it: "none" (never
\* set successfully), "set" (the latest set or remove of k was a set that
\* returned Ok, with value val), "rem" (k was set, and then remove(k)
\* returned Ok), "failed" (a set of k returned an error or did not return)

\* the keys of the pairs an iteration yields
IterKeys(it) == {it[j].k : j \in {n \in 1..Len(it) : it[n].ok}}

Call(op, key, val, out, ret, splits, preLive, preCount) ==
    [op |-> op, key |-> key, val |-> val, out |-> out, ret |-> ret,
     splits |-> splits, preLive |-> preLive, preCount |-> preCount]

\* the process is gone after a panic, and never returns from an endless loop
Running == last.out \in {"ok", "err"}

InitStore ==
    /\ shards = Store_open.shards
    /\ inodes = Store_open.inodes
    /\ dir = Store_open.dir
    /\ latest = [k \in Keys |-> [op |-> "none", val |-> <<>>]]
    /\ last = Call("open", <<>>, <<>>, "ok", TRUE, <<>>, FALSE, 0)
    /\ ops = 0
    /\ nsplit = 0

Init == InitStore /\ faults = 0 /\ hs = NoHasher /\ wf = NoFile /\ pk = NoParted /\ tk = NoY3

InitIO == InitStore /\ faults = MaxFaults /\ hs = NoHasher /\ wf = NoFile /\ pk = NoParted /\ tk = NoY3

SetAct(k, v) ==
    /\ Running
    /\ ops < MaxOps
    /\ \E r0 \in {Store_set(St, k, v)}, it \in {Store_iter(St).items} :
         \E f \in FaultChoices(r0.st.nio) :
           \E r \in {IF f = 0 THEN r0 ELSE Store_set(With(f), k, v)} :
             /\ shards' = r.st.shards
             /\ inodes' = r.st.inodes
             /\ dir' = r.st.dir
             /\ latest' = [latest EXCEPT ![k] = IF r.out = "ok"
                                                THEN [op |-> "set", val |-> v]
                                                ELSE [op |-> "failed", val |-> v]]
             /\ last' = Call("set", k, v, r.out, r.ret, r.splits,
                             k \in IterKeys(it), Len(it))
             /\ faults' = IF f = 0 THEN faults ELSE faults - 1
    /\ ops' = ops + 1
    /\ UNCHANGED <<nsplit, hs, wf, pk, tk>>

GetAct(k) ==
    /\ Running
    /\ \E r0 \in {Store_get(St, k)} :
         \E f \in FaultChoices(r0.st.nio) :
           \E r \in {IF f = 0 THEN r0 ELSE Store_get(With(f), k)} :
             /\ shards' = r.st.shards
             /\ inodes' = r.st.inodes
             /\ dir' = r.st.dir
             /\ last' = Call("get", k, <<>>, r.out, r.ret, <<>>, FALSE, 0)
             /\ faults' = IF f = 0 THEN faults ELSE faults - 1
    /\ UNCHANGED <<latest, ops, nsplit, hs, wf, pk, tk>>

RemoveAct(k) ==
    /\ Running
    /\ ops < MaxOps
    /\ \E r0 \in {Store_remove(St, k)} :
         \E f \in FaultChoices(r0.st.nio) :
           \E r \in {IF f = 0 THEN r0 ELSE Store_remove(With(f), k)} :
             /\ shards' = r.st.shards
             /\ inodes' = r.st.inodes
             /\ dir' = r.st.dir
             /\ latest' = IF r.out = "ok" /\ latest[k].op = "set"
                          THEN [latest EXCEPT ![k] = [op |-> "rem", val |-> <<>>]]
                          ELSE latest
             /\ last' = Call("remove", k, <<>>, r.out, r.ret, <<>>, FALSE, 0)
             /\ faults' = IF f = 0 THEN faults ELSE faults - 1
    /\ ops' = ops + 1
    /\ UNCHANGED <<nsplit, hs, wf, pk, tk>>

\* Store::iter, consumed to its end (as iter().count() in main.rs)
IterAct ==
    /\ Running
    /\ \E r0 \in {Store_iter(St)} :
         \E f \in FaultChoices(r0.st.nio) :
           \E r \in {IF f = 0 THEN r0 ELSE Store_iter(With(f))} :
             /\ shards' = r.st.shards
             /\ inodes' = r.st.inodes
             /\ dir' = r.st.dir
             /\ last' = Call("iter", <<>>, <<>>, "ok", r.items, <<>>, FALSE, 0)
             /\ faults' = IF f = 0 THEN faults ELSE faults - 1
    /\ UNCHANGED <<latest, ops, nsplit, hs, wf, pk, tk>>

\* a direct call of the public Store::split(shard_idx)
SplitAct(i) ==
    /\ Running
    /\ ops < MaxOps
    /\ nsplit < MaxSplitCalls
    /\ \E r0 \in {Store_split(St, i)} :
         \E f \in FaultChoices(r0.st.nio) :
           \E r \in {IF f = 0 THEN r0 ELSE Store_split(With(f), i)} :
             /\ shards' = r.st.shards
             /\ inodes' = r.st.inodes
             /\ dir' = r.st.dir
             /\ last' = Call("split", <<>>, <<>>, r.out, TRUE,
                             <<SplitRecord(St, i, r)>>, FALSE, 0)
             /\ faults' = IF f = 0 THEN faults ELSE faults - 1
    /\ ops' = ops + 1
    /\ nsplit' = nsplit + 1
    /\ UNCHANGED <<latest, hs, wf, pk, tk>>

Next ==
    \/ \E kv \in SetInputs : SetAct(kv[1], kv[2])
    \/ \E k \in Keys : GetAct(k)
    \/ \E k \in Keys : RemoveAct(k)
    \/ IterAct
    \/ \E i \in 1..Len(shards) : SplitAct(i)

Spec == Init /\ [][Next]_vars

SpecIO == InitIO /\ [][Next]_vars

(* ---------------------------------------------------------------------- *)
(* Properties.                                                             *)
(* ---------------------------------------------------------------------- *)
\* a list of ranges starts at 0, ends at MAX_SHARD, and every range starts
\* where the one before it ends and does not end before it starts
RangesCover(rs) ==
    /\ Len(rs) >= 1
    /\ rs[1][1] = 0
    /\ rs[Len(rs)][2] = MAX_SHARD
    /\ \A i \in 1..Len(rs) : rs[i][1] <= rs[i][2]
    /\ \A i \in 2..Len(rs) : rs[i][1] = rs[i - 1][2]

LastSetOk == last.op = "set" /\ last.out = "ok"

\* every value passed to set so far fits the u16 length field
SmallValues == \A k \in Keys : BLen(latest[k].val) < U16

\* C1: when set(k, v) has returned successfully, a get(k) that follows
\* immediately returns Some(v)
C1_SetThenGet ==
    LastSetOk =>
        /\ Store_get(St, last.key).out = "ok"
        /\ Store_get(St, last.key).ret = Some(last.val)

\* C2: as long as split is called by set only and values are shorter than
\* 65536 bytes, every key whose latest operation was set(k, v) is returned
\* by get(k) as Some(v), whatever sets of other keys, splits included, came
\* later
C2_KeptAcrossSplits ==
    (nsplit = 0 /\ SmallValues) =>
        \A k \in Keys :
            latest[k].op = "set" => Store_get(St, k).ret = Some(latest[k].val)

\* C3: the shard list, read in order, starts at 0, is contiguous, does not
\* overlap and ends at 65536 (stated for the behaviours in which split is
\* called by set only)
C3_RangesPartition == nsplit = 0 => RangesCover(Ranges(shards))

\* C4: every live entry lies in the shard whose range contains its key's
\* shard index (stated for the behaviours in which split is called by set
\* only)
C4_EntriesInOwner ==
    nsplit = 0 =>
        \A i \in 1..Len(shards) :
            LET it == ShardFile_iter(St, shards[i]).items
            IN  \A j \in 1..Len(it) :
                    /\ it[j].ok
                    /\ shards[i].start <= shard(PartedHash_new(it[j].k))
                    /\ shard(PartedHash_new(it[j].k)) < shards[i].end

C6_Overwrite ==
    (nsplit = 0 /\ SmallValues /\ LastSetOk) =>
        /\ Store_get(St, last.key).ret = Some(last.val)
        /\ last.preLive => Len(Store_iter(St).items) <= last.preCount

\* C7: a key that was set and then removed, and not set again since: get
\* returns None and a further remove returns false (stated for the
\* behaviours in which split is called by set only)
C7_RemovedIsGone ==
    nsplit = 0 =>
        \A k \in Keys :
            latest[k].op = "rem" =>
                /\ Store_get(St, k).out = "ok"
                /\ Store_get(St, k).ret = None
                /\ Store_remove(St, k).out = "ok"
                /\ Store_remove(St, k).ret = FALSE

\* C8: as long as only set and remove are called, with values shorter than
\* 65536 bytes and none of the calls failing, iterate yields exactly one
\* pair per key whose latest operation was a set, with that value, and
\* nothing else
C8_IterIsMap ==
    (nsplit = 0 /\ SmallValues /\ \A k \in Keys : latest[k].op # "failed") =>
        LET it == Store_iter(St).items
        IN  /\ \A j \in 1..Len(it) :
                   /\ it[j].ok
                   /\ it[j].k \in Keys
                   /\ latest[it[j].k] = [op |-> "set", val |-> it[j].v]
            /\ \A k \in Keys :
                   latest[k].op = "set" =>
                       Cardinality({j \in 1..Len(it) : it[j].k = k}) = 1

\* shard indexes at the edges of the shards of the list and of the keys
ShardIndexes ==
    ({0, MAX_SHARD - 1}
        \cup {shard(PartedHash_new(k)) : k \in Keys}
        \cup {shards[i].start : i \in 1..Len(shards)}
        \cup {shards[i].end : i \in 1..Len(shards)}
        \cup {shards[i].end - 1 : i \in 1..Len(shards)})
    \cap (0..(MAX_SHARD - 1))

\* C9: no call panics, and for every shard index the scan finds a shard,
\* whose range contains the index, and no other shard's range contains it
\* (stated for the behaviours in which split is called by set only)
C9_OwnerFound ==
    nsplit = 0 =>
        /\ last.out # "panic"
        /\ \A x \in ShardIndexes :
               LET i == FindShard(shards, [hi |-> x, mid |-> 0, lo |-> 1], 1)
               IN  /\ i # 0
                   /\ shards[i].start <= x /\ x < shards[i].end
                   /\ \A j \in 1..Len(shards) :
                          (shards[j].start <= x /\ x < shards[j].end) => j = i

\* C10: every execution of split by set replaces the shard [start, end) at
\* its place in the list by [start, mid) and [mid, end), mid = (start +
\* end) / 2; the list grows by one and still partitions [0, 65536)
C10_SplitReplacesOne ==
    last.op = "set" =>
        \A n \in 1..Len(last.splits) :
            LET rec == last.splits[n]
                s == rec.before[rec.idx][1]
                e == rec.before[rec.idx][2]
                m == (s + e) \div 2
            IN  /\ rec.after = SubSeq(rec.before, 1, rec.idx - 1)
                                   \o <<<<s, m>>, <<m, e>>>>
                                   \o SubSeq(rec.before, rec.idx + 1, Len(rec.before))
                /\ Len(rec.after) = Len(rec.before) + 1
                /\ RangesCover(rec.after)

(* ---------------------------------------------------------------------- *)
(* Lengths, errors and the log layout.                                     *)
(* ---------------------------------------------------------------------- *)
\* C11: a set with a key or a value of more than 65535 bytes returns an
\* error and leaves the shard list, every file and the directory as they
\* were
C11_OversizeRejected ==
    [][(last'.op = "set" /\ (BLen(last'.key) >= U16 \/ BLen(last'.val) >= U16))
           => (last'.out = "err" /\ shards' = shards /\ inodes' = inodes /\ dir' = dir)]_vars

\* C12: the store that Store::open returns has exactly one shard, with the
\* range [0, 65536), and no live entry: get of every key returns None and
\* iterate yields nothing
C12_OpenIsEmpty ==
    last.op = "open" =>
        /\ Ranges(shards) = <<<<0, 65536>>>>
        /\ \A k \in Keys :
               Store_get(St, k).out = "ok" /\ Store_get(St, k).ret = None
        /\ Store_iter(St).items = <<>>

\* the store just opened, with the one file "0-65536" in its directory
C12_Witness ==
    /\ last.op = "open"
    /\ Len(shards) = 1
    /\ DOMAIN dir = {<<0, 65536>>}

\* the keys iterate yields
LiveKeys == IterKeys(Store_iter(St).items)

\* C13: for a key that is not live, get returns Ok(None) and remove returns
\* Ok(false), and remove leaves the shard list and every file as they are
\* (stated for the behaviours in which split is called by set only)
C13_AbsentKey ==
    nsplit = 0 =>
        \A k \in Keys \ LiveKeys :
            /\ Store_get(St, k).out = "ok"
            /\ Store_get(St, k).ret = None
            /\ Store_remove(St, k).out = "ok"
            /\ Store_remove(St, k).ret = FALSE
            /\ Store_remove(St, k).st.shards = shards
            /\ Store_remove(St, k).st.inodes = inodes


\* C14: a call in which a file operation fails returns the I/O error (get,
\* set, remove, split), and an iteration in which one fails yields an Err item
C14_ErrorsPropagate ==
    [][faults' < faults =>
          IF last'.op = "iter"
          THEN \E j \in 1..Len(last'.ret) : ~last'.ret[j].ok
          ELSE last'.out = "err"]_vars

C14_Witness ==
    /\ faults < MaxFaults
    /\ last.op = "get"
    /\ last.out = "err"
    /\ Len(shards) = 2


\* the shard that owns last'.key, when the set just done split nothing
SetShard == shards[FindShard(shards, PartedHash_new(last'.key), 1)]

\* the set just done returned Ok(true) without a split, and every descriptor
\* it stored in the owner's row has the offset base plus the number of bytes
\* appended to that shard's file before the call, the key's length and the
\* value's length as u16
AppendedAt(base) ==
    (last'.op = "set" /\ last'.out = "ok" /\ last'.splits = <<>>) =>
        LET r == row(PartedHash_new(last'.key))
            old == inodes[SetShard.ino]
            new == inodes'[SetShard.ino]
            changed == {s \in 0..(WIDTH - 1) :
                            new.hdr[r].descriptors[s] # old.hdr[r].descriptors[s]}
        IN  /\ changed # {}
            /\ \A s \in changed :
                   new.hdr[r].descriptors[s] =
                       [offset |-> base + BLen(old.log),
                        klen |-> BLen(last'.key) % U16,
                        vlen |-> BLen(last'.val) % U16]

SlotShard(n) == shards[(n \div (ROWS * WIDTH)) + 1]

SlotRow(n) == inodes[SlotShard(n).ino].hdr[(n % (ROWS * WIDTH)) \div WIDTH]

SlotLive(n) == SlotRow(n).signs[n % WIDTH] # INVALID_SIGN

\* the record a live slot points to
SlotRecord(n) ==
    LET d == SlotRow(n).descriptors[n % WIDTH]
        log == inodes[SlotShard(n).ino].log
        from == d.offset - HEADER_SIZE
    IN  IF from >= 0 /\ from + d.klen + d.vlen <= BLen(log)
        THEN [ok |-> TRUE, k |-> BTake(BDrop(log, from), d.klen),
              v |-> BTake(BDrop(log, from + d.klen), d.vlen)]
        ELSE [ok |-> FALSE, k |-> <<>>, v |-> <<>>]

LiveSlots ==
    SelectSeq([n \in 1..(Len(shards) * ROWS * WIDTH) |-> n - 1], SlotLive)

HashInit ==
    /\ InitStore
    /\ tk = NoY3
    /\ pk = NoParted
    /\ faults = 0
    /\ wf = NoFile
    /\ \E seed \in Seeds, data \in HashInputs, checked \in BOOLEAN :
          hs = [phase |-> "hashing", seed |-> seed, data |-> data, pos |-> 0,
                hasher |-> Hasher_with_seed(seed), checked |-> checked,
                nwrite |-> 0, out |-> None, dbg |-> TRUE]

\* hasher.write(&data[pos .. pos + n])
WriteAct(n) ==
    /\ hs.phase = "hashing"
    /\ hs.pos + n <= Len(hs.data)
    /\ hs' = [hs EXCEPT !.hasher = Hasher_write(@, SubSeq(hs.data, hs.pos + 1, hs.pos + n)),
                        !.pos = @ + n,
                        !.nwrite = IF @ < MaxCount THEN @ + 1 ELSE @,
                        !.out = None,
                        !.dbg = @ /\ Hasher_write_asserts(
                                         hs.hasher, SubSeq(hs.data, hs.pos + 1, hs.pos + n))]
    /\ UNCHANGED <<shards, inodes, dir, latest, last, ops, nsplit, faults, wf, pk, tk>>

\* hasher.finish(), next to a fresh Hasher given the same bytes in one
\* write and to Hasher::oneshot of them
FinishAct ==
    /\ hs.phase = "hashing"
    /\ hs.out = None
    /\ hs' = [hs EXCEPT !.out =
                 Some([finish |-> Hasher_finish_32(hs.hasher, hs.checked),
                       whole |-> Hasher_finish_32(
                                     Hasher_write(Hasher_with_seed(hs.seed),
                                                  SubSeq(hs.data, 1, hs.pos)),
                                     hs.checked),
                       oneshot |-> Hasher_oneshot(hs.seed, SubSeq(hs.data, 1, hs.pos),
                                                  hs.checked)])]
    /\ UNCHANGED <<shards, inodes, dir, latest, last, ops, nsplit, faults, wf, pk, tk>>

HashNext ==
    \/ \E n \in ChunkLens : WriteAct(n)
    \/ FinishAct

SpecHash == HashInit /\ [][HashNext]_vars

\* C17: whatever the seed, the bytes and the way they were cut into write()
\* calls, finish() gives what one write of all the bytes gives and what
\* Hasher::oneshot gives
C17_ChunkingIndependent ==
    hs.out # None =>
        /\ hs.out[1].finish = hs.out[1].whole
        /\ hs.out[1].finish = hs.out[1].oneshot

\* more than two blocks fed in three or more writes, bytes left in the buffer
C17_Witness ==
    /\ hs.out # None
    /\ hs.out[1].finish # None
    /\ hs.nwrite >= MaxCount
    /\ hs.pos > 2 * BYTES_IN_LANE
    /\ hs.hasher.buffer.offset >= 5


(* Splits. *)
\* the last call was a set that returned the error of a split it started
SetFailedInSplit ==
    /\ last.op = "set"
    /\ last.out = "err"
    /\ last.splits # <<>>
    /\ last.splits[Len(last.splits)].out = "err"

\* C18: after a set that returned an I/O error raised inside a split, the
\* shard list still covers [0, 65536) without a gap, no fewer entries are
\* live than before the call, and every key still has an owning shard
C18_FailedSplitKeepsStore ==
    SetFailedInSplit =>
        /\ RangesCover(Ranges(shards))
        /\ Len(Store_iter(St).items) >= last.preCount
        /\ \A k \in Keys : FindShard(shards, PartedHash_new(k), 1) # 0


\* C19: every shard of the list is 2^k shard indexes wide, k >= 0, and every
\* split done by the last call cut its range [s, e) at an m with s < m < e
C19_HalvesNonEmpty ==
    /\ \A i \in 1..Len(shards) :
           shards[i].end - shards[i].start \in {Pow2(k) : k \in 0..16}
    /\ \A n \in 1..Len(last.splits) :
           LET rec == last.splits[n]
               s == rec.before[rec.idx][1]
               e == rec.before[rec.idx][2]
           IN  s < SplitMid(s, e) /\ SplitMid(s, e) < e


\* the live (key, value) pairs of the store
LivePairs ==
    LET it == Store_iter(St).items
    IN  {<<it[j].k, it[j].v>> : j \in {n \in 1..Len(it) : it[n].ok}}

\* C20: a split loses and invents nothing: after a set that split one or
\* more shards and returned Ok, the live pairs are those from before the
\* call, with the pair just set in place of any earlier pair of its key,
\* and after a direct call of split that returned Ok they are those from
\* before the call
C20_SplitKeepsPairs ==
    [][/\ (last'.op = "set" /\ last'.out = "ok" /\ last'.splits # <<>>
              /\ BLen(last'.val) < U16)
          => LivePairs' = {p \in LivePairs : p[1] # last'.key}
                              \cup {<<last'.key, last'.val>>}
       /\ (last'.op = "split" /\ last'.out = "ok") => LivePairs' = LivePairs]_vars


(* Files, rows and the log. *)
\* C21: the files of the store directory are exactly the files
\* "{start}-{end}" of the shards of the list, each the file its shard has
\* open
C21_FilesAreShards ==
    /\ DOMAIN dir = {<<shards[i].start, shards[i].end>> : i \in 1..Len(shards)}
    /\ \A i \in 1..Len(shards) :
           <<shards[i].start, shards[i].end>> \in DOMAIN dir
               => dir[<<shards[i].start, shards[i].end>>] = shards[i].ino


\* the record the descriptor of slot s of row r of shard i locates
SlotRead(i, r, s) ==
    ShardFile_read(St, shards[i], header_row(St, shards[i], r).descriptors[s])

\* the slots of shard i whose signature is not INVALID_SIGN
LiveSlotsOf(i) ==
    {p \in (0..(ROWS - 1)) \X (0..(WIDTH - 1)) :
        header_row(St, shards[i], p[1]).signs[p[2]] # INVALID_SIGN}

\* C22: every slot with a signature other than 0 has a descriptor that
\* locates a record lying wholly in the log of its shard, behind the header,
\* whose key has that signature and the row index of the slot's row; and no
\* two such slots of one shard hold the same key
C22_LiveSlotsValid ==
    \A i \in 1..Len(shards) :
        /\ \A p \in LiveSlotsOf(i) :
               /\ header_row(St, shards[i], p[1]).descriptors[p[2]].offset >= HEADER_SIZE
               /\ SlotRead(i, p[1], p[2]).ok
               /\ SlotRead(i, p[1], p[2]).k \in Keys
               /\ sign(PartedHash_new(SlotRead(i, p[1], p[2]).k))
                      = header_row(St, shards[i], p[1]).signs[p[2]]
               /\ row(PartedHash_new(SlotRead(i, p[1], p[2]).k)) = p[1]
        /\ \A p, q \in LiveSlotsOf(i) :
               SlotRead(i, p[1], p[2]).k = SlotRead(i, q[1], q[2]).k => p = q


\* C23: a set of a key that is not live which returns an I/O error without
\* having split leaves every row as it was (no signature and no descriptor
\* differs) and iterate yields what it yielded before
C23_FailedSetKeepsRow ==
    [][(last'.op = "set" /\ last'.out = "err" /\ last'.splits = <<>> /\ ~last'.preLive)
          => /\ \A i \in 1..Len(shards) :
                    inodes'[shards[i].ino].hdr = inodes[shards[i].ino].hdr
             /\ Store_iter(St)'.items = Store_iter(St).items]_vars


\* row r of shard i has no slot with signature 0
RowFull(i, r) ==
    \A s \in 0..(WIDTH - 1) : header_row(St, shards[i], r).signs[s] # INVALID_SIGN

\* key is in none of the slots of its row in shard i
NotInRow(i, key) ==
    \A f \in {FindKey(St, shards[i], PartedHash_new(key), key, 0)} :
        f.out = "ok" /\ f.idx = WIDTH

\* C24: when the row of the key has no slot with signature 0 and the key is
\* not in it, ShardFile::set returns Ok(false) and changes no signature, no
\* descriptor, no log byte and not the append position
C24_FullRowRejects ==
    \A i \in 1..Len(shards), kv \in SetInputs :
        (RowFull(i, row(PartedHash_new(kv[1]))) /\ NotInRow(i, kv[1])) =>
            \A r \in {ShardFile_set(St, shards[i], PartedHash_new(kv[1]), kv[1], kv[2])} :
                /\ r.out = "ok"
                /\ r.ret = FALSE
                /\ r.st.inodes = inodes
                /\ r.st.dir = dir
                /\ r.sf = shards[i]

\* the only shard has a full row that does not hold KeyC, whose row it is
C24_Witness ==
    /\ Len(shards) = 1
    /\ RowFull(1, row(PartedHash_new(KeyC)))
    /\ NotInRow(1, KeyC)
    /\ ShardFile_set(St, shards[1], PartedHash_new(KeyC), KeyC, Val1).ret = FALSE


\* the file position one past the last byte of the log of shard i
LogEnd(i) == HEADER_SIZE + BLen(inodes[shards[i].ino].log)

\* the new record of a ShardFile::set of (key, val) on shard i that returned
\* r lies at the old end of the log, after every record a live slot
\* describes, and nothing before it has changed
AppendedRecord(i, key, val, r) ==
    /\ shards[i].pos = LogEnd(i)
    /\ LogEnd(i) >= HEADER_SIZE
    /\ r.st.inodes[shards[i].ino].log = BCat(inodes[shards[i].ino].log, BCat(key, val))
    /\ BTake(r.st.inodes[shards[i].ino].log, BLen(inodes[shards[i].ino].log))
           = inodes[shards[i].ino].log
    /\ r.sf.pos = LogEnd(i) + BLen(key) + BLen(val)
    /\ \A n \in DOMAIN inodes \ {shards[i].ino} : r.st.inodes[n] = inodes[n]
    /\ \A p \in LiveSlotsOf(i) :
           \A d \in {header_row(St, shards[i], p[1]).descriptors[p[2]]} :
               d.offset + d.klen + d.vlen <= LogEnd(i)

\* the slot of the key after the set describes the new record; a key that
\* was in slot idx of its row is still in that slot
SlotPointsAtNew(i, key, val, r, idx) ==
    \E s \in 0..(WIDTH - 1) :
        /\ idx < WIDTH => s = idx
        /\ header_row(r.st, r.sf, row(PartedHash_new(key))).signs[s] = sign(PartedHash_new(key))
        /\ header_row(r.st, r.sf, row(PartedHash_new(key))).descriptors[s]
               = [offset |-> LogEnd(i), klen |-> BLen(key) % U16, vlen |-> BLen(val) % U16]

\* C25: the log is append-only: every successful ShardFile::set writes
\* key || value at the current end of the file, at or after the header and
\* after every earlier record, modifies no earlier byte, also when it
\* overwrites an existing key, and leaves the key's slot describing the new
\* record
C25_LogAppendOnly ==
    \A i \in 1..Len(shards), kv \in SetInputs :
        \A r \in {ShardFile_set(St, shards[i], PartedHash_new(kv[1]), kv[1], kv[2])} :
            (r.out = "ok" /\ r.ret) =>
                /\ AppendedRecord(i, kv[1], kv[2], r)
                /\ SlotPointsAtNew(i, kv[1], kv[2], r,
                       FindKey(St, shards[i], PartedHash_new(kv[1]), kv[1], 0).idx)


(* ---------------------------------------------------------------------- *)
(* A caller of ShardFile::write and ::read on one shard file whose log     *)
(* holds NFills records: it writes a record and reads it back through the  *)
(* descriptor that write returned.                                         *)
(* ---------------------------------------------------------------------- *)
LogInit ==
    /\ InitStore
    /\ tk = NoY3
    /\ pk = NoParted
    /\ faults = 0
    /\ hs = NoHasher
    /\ \E n \in NFills : wf = [file |-> FilledFile(n), napp |-> 0, out |-> None]

\* let desc = shard.write(k, v)?; shard.read(desc)
AppendAct(k, v) ==
    /\ wf.napp < MaxAppends
    /\ \E w \in {ShardFile_write_u64(wf.file, k, v)} :
           wf' = [file |-> w.f, napp |-> wf.napp + 1,
                  out |-> Some([k |-> k, v |-> v, at |-> w.at, desc |-> w.desc,
                                rd |-> ShardFile_read_u64(w.f, w.desc)])]
    /\ UNCHANGED <<shards, inodes, dir, latest, last, ops, nsplit, faults, hs, pk, tk>>

LogNext == \E k \in WriteKeys, v \in WriteVals : AppendAct(k, v)

SpecLog == LogInit /\ [][LogNext]_vars

\* C26: for every key and value of at most 65535 bytes and at every log
\* size, the descriptor ShardFile::write returns has the file position of
\* the start of the record as its offset and the exact lengths, and
\* ShardFile::read of it returns exactly (key, value)
C26_WriteReadRoundTrip ==
    wf.out # None =>
        /\ wf.out[1].desc.offset = wf.out[1].at
        /\ wf.out[1].desc.klen = BLen(wf.out[1].k)
        /\ wf.out[1].desc.vlen = BLen(wf.out[1].v)
        /\ wf.out[1].rd.ok
        /\ wf.out[1].rd.k = wf.out[1].k
        /\ wf.out[1].rd.v = wf.out[1].v


(* Remove, slot reuse, collisions and the read-only calls. *)
\* the slots (shard, row, slot) whose signature or descriptor differs
\* between the store and st
ChangedSlots(st) ==
    {p \in (1..Len(shards)) \X (0..(ROWS - 1)) \X (0..(WIDTH - 1)) :
        \/ header_row(st, shards[p[1]], p[2]).signs[p[3]]
               # header_row(St, shards[p[1]], p[2]).signs[p[3]]
        \/ header_row(st, shards[p[1]], p[2]).descriptors[p[3]]
               # header_row(St, shards[p[1]], p[2]).descriptors[p[3]]}

\* C27: Store::remove of a live key returns true and clears exactly the one
\* slot that holds the key; the get result of every other key, the shard
\* list and every log are unchanged
C27_RemoveClearsOneSlot ==
    \A k \in LiveKeys :
        \A r \in {Store_remove(St, k)} :
            /\ r.out = "ok"
            /\ r.ret = TRUE
            /\ r.st.shards = shards
            /\ \A n \in DOMAIN inodes : r.st.inodes[n].log = inodes[n].log
            /\ \E p \in ChangedSlots(r.st) :
                   /\ ChangedSlots(r.st) = {p}
                   /\ header_row(r.st, shards[p[1]], p[2]).signs[p[3]] = INVALID_SIGN
                   /\ SlotRead(p[1], p[2], p[3]).k = k
            /\ \A o \in Keys \ {k} : Store_get(r.st, o).ret = Store_get(St, o).ret


\* the lowest-indexed slot of row r of shard i whose signature is 0
LowestFree(i, r) ==
    CHOOSE s \in 0..(WIDTH - 1) :
        /\ header_row(St, shards[i], r).signs[s] = INVALID_SIGN
        /\ \A t \in 0..(s - 1) : header_row(St, shards[i], r).signs[t] # INVALID_SIGN

\* after the set that returned res, slot e of row r of shard i holds the key:
\* its signature, and a descriptor of the record written at the cursor, which
\* reads back as the key (and the value, when its length fits the u16 field)
StoredInSlot(i, r, e, key, val, res) ==
    /\ header_row(res.st, res.sf, r).signs[e] = sign(PartedHash_new(key))
    /\ header_row(res.st, res.sf, r).descriptors[e]
           = [offset |-> shards[i].pos, klen |-> BLen(key) % U16, vlen |-> BLen(val) % U16]
    /\ \A rd \in {ShardFile_read(res.st, res.sf, header_row(res.st, res.sf, r).descriptors[e])} :
           /\ rd.ok
           /\ rd.k = key
           /\ BLen(val) < U16 => rd.v = val
    /\ \A p \in (0..(ROWS - 1)) \X (0..(WIDTH - 1)) :
           p # <<r, e>> =>
               /\ header_row(res.st, res.sf, p[1]).signs[p[2]]
                      = header_row(St, shards[i], p[1]).signs[p[2]]
               /\ header_row(res.st, res.sf, p[1]).descriptors[p[2]]
                      = header_row(St, shards[i], p[1]).descriptors[p[2]]

\* C28: ShardFile::set of a key that is not in its row stores it in the
\* lowest-indexed slot whose signature is 0, a slot cleared by remove
\* included: a row with a free slot never rejects an insert
C28_InsertsIntoLowestFree ==
    \A i \in 1..Len(shards), kv \in SetInputs :
        (~RowFull(i, row(PartedHash_new(kv[1]))) /\ NotInRow(i, kv[1])) =>
            \A r \in {ShardFile_set(St, shards[i], PartedHash_new(kv[1]), kv[1], kv[2])} :
                /\ r.out = "ok"
                /\ r.ret = TRUE
                /\ StoredInSlot(i, row(PartedHash_new(kv[1])),
                                LowestFree(i, row(PartedHash_new(kv[1]))), kv[1], kv[2], r)

\* remove(KeyA) has just cleared slot 0 of a row whose slot 1 holds KeyB,
\* and a set of KeyC on that shard puts it into slot 0
C28_Witness ==
    /\ Len(shards) = 1
    /\ last.op = "remove" /\ last.key = KeyA /\ last.ret = TRUE
    /\ header_row(St, shards[1], 0).signs[0] = INVALID_SIGN
    /\ header_row(St, shards[1], 0).signs[1] = sign(PartedHash_new(KeyB))
    /\ row(PartedHash_new(KeyC)) = 0
    /\ NotInRow(1, KeyC)
    /\ \A r \in {ShardFile_set(St, shards[1], PartedHash_new(KeyC), KeyC, Val1)} :
           r.ret /\ header_row(r.st, r.sf, 0).signs[0] = sign(PartedHash_new(KeyC))


\* the slots of the key's row in shard i whose stored record carries the key
SlotsOf(i, key) ==
    {s \in 0..(WIDTH - 1) :
        /\ header_row(St, shards[i], row(PartedHash_new(key))).signs[s] # INVALID_SIGN
        /\ SlotRead(i, row(PartedHash_new(key)), s).ok
        /\ SlotRead(i, row(PartedHash_new(key)), s).k = key}

\* two distinct keys with one signature and one row
Collide(a, b) ==
    /\ a # b
    /\ sign(PartedHash_new(a)) = sign(PartedHash_new(b))
    /\ row(PartedHash_new(a)) = row(PartedHash_new(b))

\* ShardFile::get of the key on shard sf of store st
GetOf(st, sf, key) == ShardFile_get(st, sf, PartedHash_new(key), key).ret

\* a set and a remove of key a on shard i take effect on a and leave what
\* get returns for b as it is
OtherUntouched(i, a, b) ==
    /\ \A v \in {Val1, Val2} :
           \A r \in {ShardFile_set(St, shards[i], PartedHash_new(a), a, v)} :
               /\ r.out = "ok" /\ r.ret
               /\ GetOf(r.st, r.sf, a) = Some(v)
               /\ GetOf(r.st, r.sf, b) = GetOf(St, shards[i], b)
    /\ \A r \in {ShardFile_remove(St, shards[i], PartedHash_new(a), a)} :
           /\ r.out = "ok" /\ r.ret
           /\ GetOf(r.st, shards[i], a) = None
           /\ GetOf(r.st, shards[i], b) = GetOf(St, shards[i], b)

\* C29: two distinct keys with the same signature and row that are both in
\* one shard sit in distinct slots, get of each returns the value stored
\* with it, set or remove of one leaves the other untouched, and get never
\* returns the value of a record stored under another key
C29_CollisionsByKey ==
    /\ \A i \in 1..Len(shards), a \in Keys, b \in Keys :
           (Collide(a, b) /\ SlotsOf(i, a) # {} /\ SlotsOf(i, b) # {}) =>
               /\ SlotsOf(i, a) \cap SlotsOf(i, b) = {}
               /\ \E s \in SlotsOf(i, a) :
                      GetOf(St, shards[i], a) = Some(SlotRead(i, row(PartedHash_new(a)), s).v)
               /\ OtherUntouched(i, a, b)
    /\ \A i \in 1..Len(shards), k \in Keys :
           GetOf(St, shards[i], k) # None =>
               \E s \in SlotsOf(i, k) :
                   GetOf(St, shards[i], k) = Some(SlotRead(i, row(PartedHash_new(k)), s).v)

\* KeyA and KeyB, which collide, are both in the only shard, with different
\* values, and get returns each its own
C29_Witness ==
    /\ Len(shards) = 1
    /\ Collide(KeyA, KeyB)
    /\ SlotsOf(1, KeyA) # {} /\ SlotsOf(1, KeyB) # {}
    /\ GetOf(St, shards[1], KeyA) = Some(Val2)
    /\ GetOf(St, shards[1], KeyB) = Some(Val1)


\* the store st has the shard list (ranges, files and append positions),
\* the headers, the logs and the directory of the current store
SameStore(st) == st.shards = shards /\ st.inodes = inodes /\ st.dir = dir

\* C30: Store::get and Store::iter change nothing, whether or not one of
\* their reads fails: the shard list, every signature and descriptor, every
\* log and the append position of every shard are what they were, and a
\* second iterate yields the sequence the first one yielded
C30_ReadsChangeNothing ==
    \A f \in 0..MaxFaultPos :
        /\ \A k \in Keys : SameStore(Store_get(With(f), k).st)
        /\ \A it \in {Store_iter(With(f))} :
               /\ SameStore(it.st)
               /\ Store_iter([it.st EXCEPT !.fail = f, !.nio = 0]).items = it.items

\* a get that returned a value and an iterate that yields two pairs, in a
\* store of several shards
C30_Witness ==
    /\ last.op = "get"
    /\ last.ret = Some(Val2)
    /\ Len(shards) >= 2
    /\ Len(Store_iter(St).items) >= 2


(* ---------------------------------------------------------------------- *)
(* A caller of PartedHash::sign, ::row and ::shard on one hash.            *)
(* ---------------------------------------------------------------------- *)
PartedInit ==
    /\ InitStore
    /\ tk = NoY3
    /\ faults = 0
    /\ hs = NoHasher
    /\ wf = NoFile
    /\ \E h \in HashFields : pk = [h |-> h, out |-> None]

\* ph.sign(), ph.row(), ph.shard()
PartedAct ==
    /\ pk.out = None
    /\ pk' = [pk EXCEPT !.out = Some([sign |-> sign(pk.h),
                                      row |-> row_of(pk.h, ROWS_64),
                                      shard |-> shard(pk.h)])]
    /\ UNCHANGED <<shards, inodes, dir, latest, last, ops, nsplit, faults, hs, wf, tk>>

PartedNext == PartedAct

SpecParted == PartedInit /\ [][PartedNext]_vars

\* C31: sign() is never 0: it is the low 32 bits of the hash when they are
\* not 0 and 0x12345678 when they are, so it never equals the signature of
\* an empty slot
C31_SignNeverZero ==
    pk.out # None =>
        /\ pk.out[1].sign # 0
        /\ pk.h.lo # 0 => pk.out[1].sign = pk.h.lo
        /\ pk.h.lo = 0 => pk.out[1].sign = 305419896
        /\ \A s \in 0..(WIDTH - 1) : ZeroRow.signs[s] # pk.out[1].sign

\* sign() of a hash whose low 32 bits are 0, next to one whose are not
C31_Witness ==
    /\ pk.out # None
    /\ pk.h.lo = 0
    /\ pk.out[1].sign = 305419896
    /\ sign([pk.h EXCEPT !.lo = 9]) = 9


\* C32: row() is bits 32..47 of the hash modulo ROWS and lies in [0, ROWS),
\* shard() is bits 48..63 and lies in [0, 65536), and row() is the same for
\* every value of the shard bits (ROWS is the 64 of the source)
C32_RowAndShardFields ==
    pk.out # None =>
        /\ pk.out[1].row = pk.h.mid % ROWS_64
        /\ pk.out[1].row \in 0..(ROWS_64 - 1)
        /\ pk.out[1].shard = pk.h.hi
        /\ pk.out[1].shard \in 0..65535
        /\ \A h \in HashFields :
               (h.mid = pk.h.mid /\ h.lo = pk.h.lo) => row_of(h, ROWS_64) = pk.out[1].row

\* row() and shard() of a hash whose row bits exceed ROWS and whose shard
\* bits are not a multiple of ROWS
C32_Witness ==
    /\ pk.out # None
    /\ pk.h.mid = 65
    /\ pk.h.hi = 63
    /\ pk.out[1].row = 1
    /\ pk.out[1].shard = 63


\* C33: finish_32 and oneshot add the length of the input to the
\* accumulator modulo 2^32 and return a hash, whatever the seed, the input
\* and the build: no arithmetic-overflow panic
C33_LengthAddWraps ==
    hs.out # None =>
        /\ hs.out[1].finish # None
        /\ hs.out[1].oneshot # None
        /\ hs.out[1].finish = Hasher_finish_32(hs.hasher, FALSE)
        /\ hs.out[1].oneshot = Hasher_oneshot(hs.seed, SubSeq(hs.data, 1, hs.pos), FALSE)

(* ---------------------------------------------------------------------- *)
(* A caller of the tokenizer: a file is written piece by piece, then one   *)
(* Y3 is made for it and tokenize is called.                               *)
(* ---------------------------------------------------------------------- *)

\* Y3::new on the path of a file that is still empty
Y3Init ==
    /\ InitStore
    /\ faults = 0
    /\ hs = NoHasher
    /\ wf = NoFile
    /\ pk = NoParted
    /\ tk = [phase |-> "new", file |-> <<>>, npieces |-> 0, tokens |-> <<>>]

\* the file gets one more piece before it is tokenized
FileAct ==
    /\ tk.phase = "new"
    /\ tk.npieces < MaxPieces
    /\ \E p \in Pieces :
          tk' = [tk EXCEPT !.file = @ \o p, !.npieces = @ + 1]
    /\ UNCHANGED <<shards, inodes, dir, latest, last, ops, nsplit, faults, hs, wf, pk>>

\* y3.tokenize()
TokenizeAct ==
    /\ tk.phase = "new"
    /\ tk' = [tk EXCEPT !.phase = "done", !.tokens = tokenize(@, tk.file)]
    /\ UNCHANGED <<shards, inodes, dir, latest, last, ops, nsplit, faults, hs, wf, pk>>

Y3Next == FileAct \/ TokenizeAct

SpecY3 == Y3Init /\ [][Y3Next]_vars

\* b'a'..=b'z', b'A'..=b'Z', b'0'..=b'9'
IsLowerByte(b) == b >= 97 /\ b <= 122

IsUpperByte(b) == b >= 65 /\ b <= 90

IsDigitByte(b) == b >= 48 /\ b <= 57

\* the byte string t is file[a..a + len(t)] for some a
OccursIn(t, file) ==
    \E a \in 0 .. Len(file) - Len(t) : SubSeq(file, a + 1, a + Len(t)) = t

\* C34: every token of Y3::tokenize is made of ASCII letters and digits only
\* and has a lowercase letter, and it is a slice of the file, so that a word
\* of uppercase letters only or a run of digits only, which has no such
\* slice, gives no token.
C34_TokensAlnumWithLower ==
    tk.phase = "done" =>
        \A k \in 1 .. Len(tk.tokens) :
            /\ \A j \in 1 .. Len(tk.tokens[k]) :
                  \/ IsLowerByte(tk.tokens[k][j])
                  \/ IsUpperByte(tk.tokens[k][j])
                  \/ IsDigitByte(tk.tokens[k][j])
            /\ \E j \in 1 .. Len(tk.tokens[k]) : IsLowerByte(tk.tokens[k][j])
            /\ OccursIn(tk.tokens[k], tk.file)

\* "A1 s" was tokenized: the word "A1" gave no token, "s" gave one
C34_Witness ==
    /\ tk.phase = "done"
    /\ tk.file = <<65, 49, 32, 115>>
    /\ tk.tokens = << <<115>> >>

\* C35: after each Hasher::write, whatever the lengths of the chunks, the
\* buffer offset is between 0 and 15, the bytes held are the last
\* offset bytes written (all bytes before them were consumed in whole
\* 16-byte blocks), and no debug assertion of Buffer::extend or Buffer::set
\* has failed
C35_BufferHoldsTail ==
    hs.phase = "hashing" =>
        /\ hs.hasher.buffer.offset \in 0 .. (BYTES_IN_LANE - 1)
        /\ hs.hasher.buffer.offset = hs.pos % BYTES_IN_LANE
        /\ Buffer_remaining(hs.hasher.buffer)
               = SubSeq(hs.data, hs.pos - hs.hasher.buffer.offset + 1, hs.pos)
        /\ hs.dbg

\* 37 bytes 0, 1, 2, ... were written in three or more calls; the buffer
\* holds the last five
C35_Witness ==
    /\ hs.phase = "hashing"
    /\ hs.nwrite >= MaxCount
    /\ hs.pos = (2 * BYTES_IN_LANE) + 5
    /\ Buffer_remaining(hs.hasher.buffer) = <<32, 33, 34, 35, 36>>
    /\ hs.dbg

====
